---- MODULE Spec2Model ----
(***************************************************************************)
(* Model of the data-object layer of spykewave/datatype/data_classes.py:   *)
(* VirtualData (a virtual 2-D array over several chunks), Indexer (a       *)
(* subscriptable wrapper of a one-shot iterator) and the trial access of   *)
(* AnalogData.                                                             *)
(*                                                                         *)
(* Conventions.  A 2-D array is a sequence of rows, a row a sequence of    *)
(* integers.  Row and column numbers are 0-based as in the source; chunk   *)
(* numbers are positions of a TLA+ sequence and hence 1-based (chunk k of  *)
(* the model is self._data[k-1]).  An optional integer (None or a number)  *)
(* is the empty sequence or a one-element sequence.                        *)
(***************************************************************************)
EXTENDS Integers, Sequences, FiniteSets, TLC

VARIABLES vd, vdop, vdout,      \* VirtualData object, last operation, its outcome
          ix, ixop, ixout,      \* Indexer object, last operation, its outcome
          ad, adop, adout,      \* AnalogData object, last operation, its outcome
          objs, bufs, fs,       \* data objects, their data buffers, the files on disk
          bdop, bdout,          \* last operation on a data object, its outcome
          rd,                   \* the readers of a shared VirtualData
          selop, selout,        \* last selection handed to a Selector, its outcome
          cfcall, cfdry, cfout, \* call of a compute function, its dry run, its result
          cfg, cfgop            \* cfg of a data object, the assignments made to it

vdVars == <<vd, vdop, vdout>>
ixVars == <<ix, ixop, ixout>>
adVars == <<ad, adop, adout>>
bdVars == <<objs, bufs, fs, bdop, bdout>>
rdVars == <<rd>>
slVars == <<selop, selout>>
cfVars == <<cfcall, cfdry, cfout>>
cgVars == <<cfg, cfgop>>
vars == <<vd, vdop, vdout, ix, ixop, ixout, ad, adop, adout,
          objs, bufs, fs, bdop, bdout, rd, selop, selout,
          cfcall, cfdry, cfout, cfg, cfgop>>

-----------------------------------------------------------------------------
(* Bounds of the model *)

MaxChunks == 3       \* chunks of a VirtualData
MaxRows == 2         \* rows of a chunk
MaxCols == 2         \* columns of a chunk
MaxLen == 3          \* declared length of an Indexer
MaxListLen == 2      \* length of a list index
ElemRows == 2        \* shape of the elements an Indexer wraps
ElemCols == 1
MaxSamples == 3      \* samples (time axis) of an AnalogData
NChannels == 2       \* channels of an AnalogData
MaxTrials == 2       \* trials of an AnalogData

-----------------------------------------------------------------------------
(* Values *)

None == << >>
Some(v) == <<v>>
Val(o) == o[1]
OptInt(S) == {None} \cup {Some(v) : v \in S}

Min(a, b) == IF a < b THEN a ELSE b
Max(a, b) == IF a > b THEN a ELSE b

NoArray == << >>

\* Content of the cell (r, c) of chunk number k: every cell of every chunk
\* holds a different number, so that a misplaced row or column shows.
Cell(k, r, c) == 100 * k + 10 * r + c

ChunkData(k, nr, nc) == [r \in 1..nr |-> [c \in 1..nc |-> Cell(k, r, c)]]

\* seq[lo:hi] of Python / NumPy for integer bounds (negative bounds count
\* from the end, bounds beyond the ends are clipped).
PyBound(n, x) == IF x < 0 THEN Max(x + n, 0) ELSE Min(x, n)
PySlice(seq, lo, hi) ==
    LET a == PyBound(Len(seq), lo)
        b == PyBound(Len(seq), hi)
    IN  IF a < b THEN SubSeq(seq, a + 1, b) ELSE << >>

\* arr[rlo:rhi, clo:chi]
Slice2D(arr, rlo, rhi, clo, chi) ==
    LET rws == PySlice(arr, rlo, rhi)
    IN  [r \in 1..Len(rws) |-> PySlice(rws[r], clo, chi)]

\* numpy.vstack of a list of 2-D arrays with the same number of columns
RECURSIVE vstack(_)
vstack(arrs) ==
    IF arrs = << >> THEN << >> ELSE Head(arrs) \o vstack(Tail(arrs))

\* numpy.hstack of a list of 2-D arrays: the arrays side by side.  It
\* raises a ValueError for an empty list and for arrays that differ in the
\* number of rows.
RECURSIVE JoinRows(_, _)
JoinRows(arrs, r) ==
    IF arrs = << >> THEN << >> ELSE Head(arrs)[r] \o JoinRows(Tail(arrs), r)
hstack(arrs) ==
    IF arrs = << >> \/ \E k \in 1..Len(arrs) : Len(arrs[k]) # Len(arrs[1])
      THEN [kind |-> "ValueError", value |-> NoArray]
      ELSE [kind |-> "ok",
            value |-> [r \in 1..Len(arrs[1]) |-> JoinRows(arrs, r)]]

-----------------------------------------------------------------------------
(* spykewave.utils parsers *)

\* spy_scalar_parser(var, ntype="int_like", lims=[lo, hi]) for an integer var
spy_scalar_parser(v, lo, hi) ==
    IF lo <= v /\ v <= hi THEN "ok" ELSE "ValueError"

\* spy_array_parser(var, ntype="int_like", lims=[lo, hi], dims=1) for a list
\* of integers
spy_array_parser(lst, lo, hi) ==
    IF \A k \in 1..Len(lst) : lo <= lst[k] /\ lst[k] <= hi
      THEN "ok" ELSE "ValueError"

-----------------------------------------------------------------------------
(* VirtualData *)

NoVD == [M |-> 0, N |-> 0, shape |-> <<0, 0>>, size |-> 0,
         nrows |-> << >>, rows |-> << >>, data |-> << >>]

\* An argument of VirtualData(...): a list of items or something that is
\* neither a list nor a memmap; an item has a shape or has none.
Is2D(item) == Len(item.shape) = 2

\* numpy.cumsum(nrows)
RECURSIVE SumTo(_, _)
SumTo(nrows, k) == IF k = 0 THEN 0 ELSE SumTo(nrows, k - 1) + nrows[k]
cumsum_norunningsum(nrows) == nrows
cumsum(nrows) == [k \in 1..Len(nrows) |-> SumTo(nrows, k)]

\* The attributes set at the end of __init__
VD_attrs(items) ==
    LET shapes == [k \in 1..Len(items) |-> items[k].shape]
        nrows  == [k \in 1..Len(shapes) |-> shapes[k][1]]
        cumlen == cumsum(nrows)
        M      == cumlen[Len(cumlen)]
        N      == items[1].shape[2]
    IN  [M     |-> M,
         N     |-> N,
         shape |-> <<M, N>>,
         size  |-> M * N,
         nrows |-> nrows,
         rows  |-> [k \in 1..Len(nrows) |->
                      [start |-> cumlen[k] - nrows[k], stop |-> cumlen[k]]],
         data  |-> [k \in 1..Len(items) |->
                      ChunkData(k, items[k].shape[1], items[k].shape[2])]]

\* "not numpy.array_equal([shape[1] for shape in shapes],
\*                        [shapes[0][1]] * len(shapes))"
ColsDiffer_rowaxis(items) ==
    \E k \in 1..Len(items) : items[k].shape[1] # items[1].shape[1]
ColsDiffer(items) ==
    \E k \in 1..Len(items) : items[k].shape[2] # items[1].shape[2]

\* VirtualData.__init__(chunk_list): the object, or the exception raised.
\* shapes[0] of an empty list raises an IndexError.
VD_init(chunk_list) ==
    LET items == chunk_list.items
    IN  IF chunk_list.t # "list"
          THEN [kind |-> "TypeError", obj |-> NoVD]
        ELSE IF \E k \in 1..Len(items) : ~items[k].hasShape
          THEN [kind |-> "TypeError", obj |-> NoVD]
        ELSE IF \E k \in 1..Len(items) : ~Is2D(items[k])
          THEN [kind |-> "ValueError", obj |-> NoVD]
        ELSE IF items = << >>
          THEN [kind |-> "IndexError", obj |-> NoVD]
        ELSE IF ColsDiffer(items)
          THEN [kind |-> "ValueError", obj |-> NoVD]
        ELSE [kind |-> "ok", obj |-> VD_attrs(items)]

\* "r in chunk" for chunk = range(start, stop)
InRange_closed(r, rng) == rng.start <= r /\ r <= rng.stop
InRange(r, rng) == rng.start <= r /\ r < rng.stop

\* numpy.where([r in chunk for chunk in self._rows])[0]
WhereRow(self, r) == {k \in 1..Len(self.rows) : InRange(r, self.rows[k])}

\* An index of __getitem__ made a slice: lines 535-549 (rows), 552-566 (cols)
ToSlice_stepchecked(q, bound) ==
    IF q.t = "slice" /\ q.step \notin {None, Some(1)}
      THEN [err |-> "ValueError", start |-> 0, stop |-> 0]
      ELSE [err   |-> "ok",
            start |-> IF q.start = None THEN 0 ELSE Val(q.start),
            stop  |-> IF q.stop = None THEN bound ELSE Val(q.stop)]
ToSlice(q, bound) ==
    IF q.t = "int" THEN
        IF spy_scalar_parser(q.v, 0, bound) # "ok"
          THEN [err |-> spy_scalar_parser(q.v, 0, bound), start |-> 0, stop |-> 0]
          ELSE [err |-> "ok", start |-> q.v, stop |-> q.v + 1]
    ELSE IF q.t = "slice" THEN
        [err   |-> "ok",
         start |-> IF q.start = None THEN 0 ELSE Val(q.start),
         stop  |-> IF q.stop = None THEN bound ELSE Val(q.stop)]
    ELSE [err |-> "TypeError", start |-> 0, stop |-> 0]

\* "not(0 <= s.start < bound) or not(0 < s.stop <= bound)"
OutOfLimits_nostopbound(s, bound) ==
    ~(0 <= s.start /\ s.start < bound) \/ ~(0 < s.stop)
OutOfLimits(s, bound) ==
    ~(0 <= s.start /\ s.start < bound) \/ ~(0 < s.stop /\ s.stop <= bound)

VDFail(kind) == [kind |-> kind, value |-> NoArray, reads |-> {}]

\* "row.start - self._rows[i1].start" and "row.stop - self._rows[i].start":
\* a global row number made a row number of chunk i
LocalStart_nooffset(self, i, row) == row.start
LocalStart(self, i, row) == row.start - self.rows[i].start
LocalStop_nooffset(self, i, row) == row.stop
LocalStop(self, i, row) == row.stop - self.rows[i].start

\* The part of __getitem__ that reads, for a row slice and a column slice
\* that passed the checks
VD_read(self, row, col) ==
    LET w1 == WhereRow(self, row.start)
        w2 == WhereRow(self, row.stop - 1)
    IN  IF Cardinality(w1) # 1 \/ Cardinality(w2) # 1 THEN VDFail("ValueError")
        ELSE
        LET i1 == CHOOSE k \in w1 : TRUE
            i2 == CHOOSE k \in w2 : TRUE
            mid == [j \in 1..Max(i2 - i1 - 1, 0) |->
                      Slice2D(self.data[i1 + j], 0, self.nrows[i1 + j],
                              col.start, col.stop)]
        IN  IF i1 # i2 THEN
                [kind  |-> "ok",
                 value |-> vstack(
                     <<Slice2D(self.data[i1], LocalStart(self, i1, row),
                               self.nrows[i1], col.start, col.stop)>>
                     \o mid
                     \o <<Slice2D(self.data[i2], 0, LocalStop(self, i2, row),
                                  col.start, col.stop)>>),
                 reads |-> {i1, i2} \cup {i1 + j : j \in 1..Max(i2 - i1 - 1, 0)}]
            ELSE
                [kind  |-> "ok",
                 value |-> Slice2D(self.data[i1],
                                   LocalStart(self, i1, row),
                                   LocalStop(self, i1, row),
                                   col.start, col.stop),
                 reads |-> {i1}]

\* VirtualData.__getitem__((qrow, qcol)): the array returned and the chunks
\* read, or the exception raised
VD_getitem(self, qrow, qcol) ==
    LET row == ToSlice(qrow, self.M)
        col == ToSlice(qcol, self.N)
    IN  IF row.err # "ok" THEN VDFail(row.err)
        ELSE IF col.err # "ok" THEN VDFail(col.err)
        ELSE IF OutOfLimits(row, self.M) THEN VDFail("ValueError")
        ELSE IF OutOfLimits(col, self.N) THEN VDFail("ValueError")
        ELSE VD_read(self, row, col)

-----------------------------------------------------------------------------
(* Indexer *)

(* self._iterobj is a one-shot iterator.  `elems` is the sequence it yields  *)
(* counted from its begin, each element as the outcome of computing it (an   *)
(* array, or the exception its computation raises); `pos` is the number of   *)
(* elements consumed so far.  An Indexer is [iterlen, pos].                  *)

IxFail(kind, pos) == [kind |-> kind, value |-> NoArray, pos |-> pos]

\* The first element among elems[from+1 .. to] whose computation raises, or 0
FirstRaise(elems, from, to) ==
    LET bad == {e \in (from + 1)..to : elems[e].kind # "ok"}
    IN  IF bad = {} THEN 0 ELSE CHOOSE e \in bad : \A f \in bad : e <= f

\* next(islice(self._iterobj, i, i + 1)) for i >= 0: skip i elements of what
\* is left of the iterator and take the next one
next_islice(elems, pos, i) ==
    LET n    == Len(elems)
        last == Min(pos + i + 1, n)
        e    == FirstRaise(elems, pos, last)
    IN  IF e # 0 THEN IxFail(elems[e].kind, e)
        ELSE IF pos + i + 1 > n THEN IxFail("StopIteration", n)
        ELSE [kind |-> "ok", value |-> elems[pos + i + 1].value, pos |-> pos + i + 1]

\* Indexer.__getitem__(idx) for a number
Indexer_getint(self, elems, idx) ==
    IF spy_scalar_parser(idx, 0, self.iterlen - 1) # "ok"
      THEN IxFail(spy_scalar_parser(idx, 0, self.iterlen - 1), self.pos)
      ELSE next_islice(elems, self.pos, idx)

\* "not(0 <= index.start < self._iterlen) or not (0 < index.stop <= self._iterlen)"
IxOutOfLimits(start, stop, iterlen) ==
    ~(0 <= start /\ start < iterlen) \/ ~(0 < stop /\ stop <= iterlen)

\* The positions islice(it, start, stop, step) takes, counted from where the
\* iterator stands: start, start + step, ... below stop
islice_picks_nostep(start, stop, step) ==
    [j \in 1..Max(stop - start, 0) |-> start + (j - 1)]
islice_picks(start, stop, step) ==
    [j \in 1..(IF start < stop THEN (stop - start + step - 1) \div step ELSE 0) |->
        start + (j - 1) * step]

\* Indexer.__getitem__(idx) for a slice.  islice refuses a step below 1 with
\* a ValueError; when the slice is used up the iterator has been advanced by
\* max(start, stop) elements (or to its end).
Indexer_getslice(self, elems, idx) ==
    LET start == IF idx.start = None THEN 0 ELSE Val(idx.start)
        stop  == IF idx.stop = None THEN self.iterlen ELSE Val(idx.stop)
    IN  IF IxOutOfLimits(start, stop, self.iterlen) THEN IxFail("ValueError", self.pos)
        ELSE IF idx.step # None /\ Val(idx.step) < 1 THEN IxFail("ValueError", self.pos)
        ELSE
        LET step  == IF idx.step = None THEN 1 ELSE Val(idx.step)
            n     == Len(elems)
            upto  == Min(n, self.pos + Max(start, stop))
            picks == islice_picks(start, stop, step)
            There(p) == self.pos + p + 1 <= n
            got   == SelectSeq(picks, There)
            e     == FirstRaise(elems, self.pos, upto)
            st    == hstack([j \in 1..Len(got) |-> elems[self.pos + got[j] + 1].value])
        IN  IF e # 0 THEN IxFail(elems[e].kind, e)
            ELSE [kind |-> st.kind, value |-> st.value, pos |-> upto]

\* [next(islice(self._iterobj, int(ix), int(ix + 1))) for ix in idx]
RECURSIVE list_items(_, _, _)
list_items(elems, pos, idx) ==
    IF idx = << >> THEN [kind |-> "ok", values |-> << >>, pos |-> pos]
    ELSE LET r == next_islice(elems, pos, Head(idx))
         IN  IF r.kind # "ok" THEN [kind |-> r.kind, values |-> << >>, pos |-> r.pos]
             ELSE LET rest == list_items(elems, r.pos, Tail(idx))
                  IN  [kind   |-> rest.kind,
                       values |-> IF rest.kind = "ok" THEN <<r.value>> \o rest.values
                                                      ELSE << >>,
                       pos    |-> rest.pos]

\* Indexer.__getitem__(idx) for a list
Indexer_getlist(self, elems, idx) ==
    IF spy_array_parser(idx, 0, self.iterlen) # "ok"
      THEN IxFail(spy_array_parser(idx, 0, self.iterlen), self.pos)
      ELSE LET r  == list_items(elems, self.pos, idx)
               st == hstack(r.values)
           IN  IF r.kind # "ok" THEN IxFail(r.kind, r.pos)
               ELSE [kind |-> st.kind, value |-> st.value, pos |-> r.pos]

\* Indexer.__getitem__(idx) for anything else
Indexer_getother(self) == IxFail("TypeError", self.pos)

-----------------------------------------------------------------------------
(* ContinuousData / AnalogData *)

(* An AnalogData is [kind, dimord, data, sampleinfo, hasTrialinfo]: data is  *)
(* a 2-D array (kind "memmap") or a VirtualData (kind "virtual"); sampleinfo *)
(* holds one <<start, stop>> per trial; trialinfo has as many rows.          *)

SliceIdxOf(a, b) == [t |-> "slice", v |-> 0, start |-> a, stop |-> b]
FullSlice == SliceIdxOf(None, None)

\* self._data[tuple(idx)] for idx of two slices with bounds or None
DataGetItem(self, rowIdx, colIdx) ==
    IF self.kind = "virtual"
      THEN LET r == VD_getitem(self.data, rowIdx, colIdx)
           IN  [kind |-> r.kind, value |-> r.value]
      ELSE LET nr == Len(self.data)
               nc == Len(self.data[1])
           IN  [kind  |-> "ok",
                value |-> Slice2D(self.data,
                    IF rowIdx.start = None THEN 0 ELSE Val(rowIdx.start),
                    IF rowIdx.stop = None THEN nr ELSE Val(rowIdx.stop),
                    IF colIdx.start = None THEN 0 ELSE Val(colIdx.start),
                    IF colIdx.stop = None THEN nc ELSE Val(colIdx.stop))]

\* self.dimord.index("time")
TimeAxis(self) == IF self.dimord[1] = "time" THEN 0 ELSE 1

\* AnalogData._get_trial(trialno)
AnalogData_get_trial_rowaxis(self, trialno) ==
    DataGetItem(self, SliceIdxOf(Some(self.sampleinfo[trialno + 1][1]),
                                 Some(self.sampleinfo[trialno + 1][2])), FullSlice)
AnalogData_get_trial(self, trialno) ==
    LET sl == SliceIdxOf(Some(self.sampleinfo[trialno + 1][1]),
                         Some(self.sampleinfo[trialno + 1][2]))
    IN  IF TimeAxis(self) = 0 THEN DataGetItem(self, sl, FullSlice)
                              ELSE DataGetItem(self, FullSlice, sl)

\* self.trialinfo.shape[0]
NumTrials(self) == Len(self.sampleinfo)

\* map(self._get_trial, range(self.trialinfo.shape[0]))
TrialMap(self) == [k \in 1..NumTrials(self) |-> AnalogData_get_trial(self, k - 1)]

\* ContinuousData.trials: a new Indexer at every access, or None
ContinuousData_trials(self) ==
    IF self.hasTrialinfo
      THEN [kind |-> "Indexer", iterlen |-> NumTrials(self), pos |-> 0]
      ELSE [kind |-> "None", iterlen |-> 0, pos |-> 0]

-----------------------------------------------------------------------------
(* Inputs of the VirtualData operations *)

Shapes2D == {<<r, c>> : r \in 1..MaxRows, c \in 1..MaxCols}
Items == {[hasShape |-> TRUE, shape |-> s] : s \in Shapes2D}
           \cup {[hasShape |-> TRUE, shape |-> <<1>>],
                 [hasShape |-> TRUE, shape |-> <<1, 1, 1>>],
                 [hasShape |-> FALSE, shape |-> << >>]}
ItemLists == UNION {[1..n -> Items] : n \in 0..MaxChunks}
ChunkLists == {[t |-> "list", items |-> l] : l \in ItemLists}
                \cup {[t |-> "dict", items |-> << >>]}

IntIdx(v) == [t |-> "int", v |-> v, start |-> None, stop |-> None]
SliceIdx(a, b) == [t |-> "slice", v |-> 0, start |-> a, stop |-> b]
OtherIdx == [t |-> "other", v |-> 0, start |-> None, stop |-> None]

\* The indices tried on an axis of length n: every integer and every slice
\* bound from one below the axis to one above it, None, and a dictionary
Indices(n) == {IntIdx(v) : v \in -1..(n + 1)}
                \cup {SliceIdx(a, b) : a \in OptInt(-1..(n + 1)),
                                       b \in OptInt(-1..(n + 1))}
                \cup {OtherIdx}

NoOp == [name |-> "none"]
NoOut == [kind |-> "none"]

-----------------------------------------------------------------------------
(* The VirtualData state machine *)

VDIdle == vd = NoVD /\ vdop = NoOp /\ vdout = NoOut
IxIdle == ix = [iterlen |-> 0, pos |-> 0] /\ ixop = NoOp /\ ixout = NoOut
ADIdle == ad = [kind |-> "none"] /\ adop = NoOp /\ adout = NoOut
BDIdle == objs = << >> /\ bufs = << >> /\ fs = << >> /\ bdop = NoOp /\ bdout = NoOut
RDIdle == rd = << >>
SLIdle == selop = NoOp /\ selout = NoOut
CFIdle == cfcall = NoOp /\ cfdry = NoOut /\ cfout = NoOut
CGIdle == cfg = << >> /\ cfgop = NoOp

\* vd = VirtualData(chunk_list)
Construct ==
    /\ vdop = NoOp
    /\ \E chunk_list \in ChunkLists :
         LET res == VD_init(chunk_list)
         IN  /\ vd' = res.obj
             /\ vdop' = [name |-> "init", chunk_list |-> chunk_list]
             /\ vdout' = [kind |-> res.kind, value |-> NoArray, reads |-> {}]
    /\ UNCHANGED <<ixVars, adVars, bdVars, rdVars, slVars, cfVars, cgVars>>

\* vd[qrow, qcol], called when no result of an earlier call is pending
GetItem ==
    /\ vdop.name \in {"init", "idle"}
    /\ vdout.kind = "ok"
    /\ vd # NoVD
    /\ \E qrow \in Indices(vd.M), qcol \in Indices(vd.N) :
         /\ vdop' = [name |-> "getitem", qrow |-> qrow, qcol |-> qcol]
         /\ vdout' = VD_getitem(vd, qrow, qcol)
    /\ UNCHANGED vd
    /\ UNCHANGED <<ixVars, adVars, bdVars, rdVars, slVars, cfVars, cgVars>>

\* The caller takes the result (or the exception) of vd[qrow, qcol]
Return ==
    /\ vdop.name = "getitem"
    /\ vdop' = [name |-> "idle"]
    /\ vdout' = [kind |-> "ok", value |-> NoArray, reads |-> {}]
    /\ UNCHANGED vd
    /\ UNCHANGED <<ixVars, adVars, bdVars, rdVars, slVars, cfVars, cgVars>>

Init == VDIdle /\ IxIdle /\ ADIdle /\ BDIdle /\ RDIdle /\ SLIdle /\ CFIdle /\ CGIdle

Next == Construct \/ GetItem \/ Return

Spec == Init /\ [][Next]_vars

-----------------------------------------------------------------------------
(* Properties of VirtualData *)

\* The range [lo, hi) that an index denotes on an axis of length n
LoOf(q) == IF q.t = "int" THEN q.v ELSE IF q.start = None THEN 0 ELSE Val(q.start)
HiOf(q, n) == IF q.t = "int" THEN q.v + 1 ELSE IF q.stop = None THEN n ELSE Val(q.stop)
WellTyped(q) == q.t \in {"int", "slice"}
ValidRange(q, n) == WellTyped(q) /\ 0 <= LoOf(q) /\ LoOf(q) < HiOf(q, n) /\ HiOf(q, n) <= n

\* The dense array: all chunks stacked row-wise in chunk order
RECURSIVE StackFrom(_, _)
StackFrom(chunks, k) ==
    IF k > Len(chunks) THEN << >> ELSE chunks[k] \o StackFrom(chunks, k + 1)
Dense(self) == StackFrom(self.data, 1)

\* offset_k, the first global row of chunk k, and the chunk holding row r
RECURSIVE OffsetOf(_, _)
OffsetOf(self, k) == IF k = 1 THEN 0 ELSE OffsetOf(self, k - 1) + Len(self.data[k - 1])
ChunkOfRow(self, r) ==
    CHOOSE k \in 1..Len(self.data) :
        OffsetOf(self, k) <= r /\ r < OffsetOf(self, k) + Len(self.data[k])

\* rows [rlo, rhi) and columns [clo, chi) of an array, cell by cell
Block(arr, rlo, rhi, clo, chi) ==
    [r \in 1..(rhi - rlo) |-> [c \in 1..(chi - clo) |-> arr[rlo + r][clo + c]]]

\* The part of chunk k that the rows [r0, r1) cover, for i1 <= k <= i2
PartOf(self, k, i1, i2, r0, r1, c0, c1) ==
    Block(self.data[k],
          IF k = i1 THEN r0 - OffsetOf(self, k) ELSE 0,
          IF k = i2 THEN r1 - OffsetOf(self, k) ELSE Len(self.data[k]),
          c0, c1)
RECURSIVE PartsFrom(_, _, _, _, _, _, _, _)
PartsFrom(self, k, i1, i2, r0, r1, c0, c1) ==
    IF k > i2 THEN << >>
    ELSE PartOf(self, k, i1, i2, r0, r1, c0, c1)
           \o PartsFrom(self, k + 1, i1, i2, r0, r1, c0, c1)

IsRead == vdop.name = "getitem"
ReadValid == IsRead /\ ValidRange(vdop.qrow, vd.M) /\ ValidRange(vdop.qcol, vd.N)
R0 == LoOf(vdop.qrow)
R1 == HiOf(vdop.qrow, vd.M)
C0 == LoOf(vdop.qcol)
C1 == HiOf(vdop.qcol, vd.N)

RECURSIVE SumRows(_)
SumRows(items) == IF items = << >> THEN 0 ELSE Head(items).shape[1] + SumRows(Tail(items))
GoodList(cl) ==
    /\ cl.t = "list"
    /\ cl.items # << >>
    /\ \A k \in 1..Len(cl.items) :
         /\ cl.items[k].hasShape
         /\ Len(cl.items[k].shape) = 2
         /\ cl.items[k].shape[2] = cl.items[1].shape[2]

OutOfBounds(q, n) ==
    WellTyped(q) /\ (~(0 <= LoOf(q) /\ LoOf(q) < n) \/ ~(0 < HiOf(q, n) /\ HiOf(q, n) <= n))
ReadErrors(qrow, qcol, M, N) ==
    (IF ~WellTyped(qrow) \/ ~WellTyped(qcol) THEN {"TypeError"} ELSE {})
      \cup (IF OutOfBounds(qrow, M) \/ OutOfBounds(qcol, N) THEN {"ValueError"} ELSE {})

\* C4: a read with an index that is neither a number nor a slice raises a
\* TypeError, one with a row or column index outside the limits a ValueError
\* (one of the two when both apply); it returns no data, reads no chunk and
\* leaves the VirtualData unchanged.
C4_ValidateBeforeRead ==
    [][(vdop'.name = "getitem" /\ vdop.name # "getitem"
          /\ ReadErrors(vdop'.qrow, vdop'.qcol, vd.M, vd.N) # {}) =>
            /\ vdout'.kind \in ReadErrors(vdop'.qrow, vdop'.qcol, vd.M, vd.N)
            /\ vdout'.value = NoArray
            /\ vdout'.reads = {}
            /\ vd' = vd]_vars

\* Reads refused on each of the grounds: a dictionary as column index, and a
\* column slice that ends above N on an array of several chunks
C4_WitnessType ==
    /\ IsRead
    /\ WellTyped(vdop.qrow) /\ ~OutOfBounds(vdop.qrow, vd.M)
    /\ ~WellTyped(vdop.qcol)
    /\ vdout.kind = "TypeError"
C4_Witness ==
    /\ IsRead
    /\ Len(vd.data) > 1
    /\ ValidRange(vdop.qrow, vd.M)
    /\ vdop.qcol.t = "slice" /\ LoOf(vdop.qcol) = 0 /\ HiOf(vdop.qcol, vd.N) = vd.N + 1
    /\ vdout.kind = "ValueError"
    /\ vdout.reads = {}

\* C5 (as claimed): a read with a row or column slice whose start is not
\* below its stop raises a ValueError and returns no data.
C5_MalformedSliceRaises ==
    (IsRead /\ WellTyped(vdop.qrow) /\ WellTyped(vdop.qcol)
        /\ (LoOf(vdop.qrow) >= HiOf(vdop.qrow, vd.M)
              \/ LoOf(vdop.qcol) >= HiOf(vdop.qcol, vd.N))) =>
        /\ vdout.kind = "ValueError"
        /\ vdout.value = NoArray

\* The errors that an argument of the constructor calls for
InitErrors(cl) ==
    (IF cl.t # "list" \/ \E k \in 1..Len(cl.items) : ~cl.items[k].hasShape
       THEN {"TypeError"} ELSE {})
      \cup (IF \E k \in 1..Len(cl.items) :
                  cl.items[k].hasShape /\ Len(cl.items[k].shape) # 2
              THEN {"ValueError"} ELSE {})
      \cup (IF \E j, k \in 1..Len(cl.items) :
                  /\ cl.items[j].hasShape /\ Len(cl.items[j].shape) = 2
                  /\ cl.items[k].hasShape /\ Len(cl.items[k].shape) = 2
                  /\ cl.items[j].shape[2] # cl.items[k].shape[2]
              THEN {"ValueError"} ELSE {})

\* C6: constructing from something that is no list of array-likes raises a
\* TypeError, from a list with a chunk that is not 2-D or with chunks of
\* different column counts a ValueError (one of the two when both apply),
\* and no VirtualData is produced.
C6_ConstructorErrors ==
    (vdop.name = "init" /\ InitErrors(vdop.chunk_list) # {}) =>
        /\ vdout.kind \in InitErrors(vdop.chunk_list)
        /\ vd = NoVD

\* Two 2-D chunks that differ in the column count only
C6_Witness ==
    /\ vdop.name = "init"
    /\ vdop.chunk_list.t = "list"
    /\ Len(vdop.chunk_list.items) = 2
    /\ \A k \in 1..2 : vdop.chunk_list.items[k].hasShape
                         /\ Len(vdop.chunk_list.items[k].shape) = 2
    /\ vdop.chunk_list.items[1].shape[1] = vdop.chunk_list.items[2].shape[1]
    /\ vdop.chunk_list.items[1].shape[2] # vdop.chunk_list.items[2].shape[2]
    /\ vdout.kind = "ValueError"
    /\ vd = NoVD

-----------------------------------------------------------------------------
(* The Indexer state machine: one Indexer over a one-shot iterator that      *)
(* yields iterlen arrays of ElemRows x ElemCols cells, indexed repeatedly    *)

\* The element that the wrapped sequence holds at position i (0-based)
Elem(i) == ChunkData(i + 1, ElemRows, ElemCols)
IxElems(n) == [k \in 1..n |-> [kind |-> "ok", value |-> Elem(k - 1)]]

IxSlices(n) == [start : OptInt(-1..(n + 1)), stop : OptInt(-1..(n + 1)),
                step : OptInt(0..2)]
IxLists(n) == UNION {[1..m -> 0..(n + 1)] : m \in 0..MaxListLen}
NoSlice == [start |-> None, stop |-> None, step |-> None]

IxOp(name, i, sl, lst) ==
    [name |-> name, i |-> i, sl |-> sl, lst |-> lst, pos0 |-> ix.pos]
IxDo(res) ==
    /\ ix' = [ix EXCEPT !.pos = res.pos]
    /\ ixout' = [kind |-> res.kind, value |-> res.value]

\* indexer[i]
IxGetInt ==
    /\ \E i \in -1..(ix.iterlen + 1) :
         /\ ixop' = IxOp("int", i, NoSlice, << >>)
         /\ IxDo(Indexer_getint(ix, IxElems(ix.iterlen), i))
    /\ UNCHANGED <<vdVars, adVars, bdVars, rdVars, slVars, cfVars, cgVars>>

\* indexer[start:stop:step]
IxGetSlice ==
    /\ \E sl \in IxSlices(ix.iterlen) :
         /\ ixop' = IxOp("slice", 0, sl, << >>)
         /\ IxDo(Indexer_getslice(ix, IxElems(ix.iterlen), sl))
    /\ UNCHANGED <<vdVars, adVars, bdVars, rdVars, slVars, cfVars, cgVars>>

\* indexer[[i1, ..., ik]]
IxGetList ==
    /\ \E lst \in IxLists(ix.iterlen) :
         /\ ixop' = IxOp("list", 0, NoSlice, lst)
         /\ IxDo(Indexer_getlist(ix, IxElems(ix.iterlen), lst))
    /\ UNCHANGED <<vdVars, adVars, bdVars, rdVars, slVars, cfVars, cgVars>>

\* indexer[{}]
IxGetOther ==
    /\ ixop' = IxOp("other", 0, NoSlice, << >>)
    /\ IxDo(Indexer_getother(ix))
    /\ UNCHANGED <<vdVars, adVars, bdVars, rdVars, slVars, cfVars, cgVars>>

InitIx ==
    /\ VDIdle /\ ADIdle /\ BDIdle /\ RDIdle /\ SLIdle /\ CFIdle /\ CGIdle
    /\ ix \in {[iterlen |-> n, pos |-> 0] : n \in 1..MaxLen}
    /\ ixop = NoOp
    /\ ixout = NoOut

NextIx == IxGetInt \/ IxGetSlice \/ IxGetList \/ IxGetOther

SpecIx == InitIx /\ [][NextIx]_vars

-----------------------------------------------------------------------------
(* Properties of Indexer *)

\* hstack and vstack of the elements at the positions ps (0-based)
RECURSIVE StackDown(_)
StackDown(ps) == IF ps = << >> THEN << >> ELSE Elem(Head(ps)) \o StackDown(Tail(ps))
RECURSIVE RowAcross(_, _)
RowAcross(ps, r) ==
    IF ps = << >> THEN << >> ELSE Elem(Head(ps))[r] \o RowAcross(Tail(ps), r)
StackAcross(ps) == [r \in 1..ElemRows |-> RowAcross(ps, r)]

\* C7 (as claimed): on one Indexer every integer index i in [0, L) returns
\* the i-th element of the wrapped sequence, whatever was indexed before.
C7_IntIndexReturnsIth ==
    (ixop.name = "int" /\ 0 <= ixop.i /\ ixop.i < ix.iterlen) =>
        (ixout.kind = "ok" /\ ixout.value = Elem(ixop.i))

\* The positions start, start + step, ... below stop
RECURSIVE Stepped(_, _, _)
Stepped(a, b, st) == IF a >= b THEN << >> ELSE <<a>> \o Stepped(a + st, b, st)
SlLo(sl) == IF sl.start = None THEN 0 ELSE Val(sl.start)
SlHi(sl, n) == IF sl.stop = None THEN n ELSE Val(sl.stop)
SlStep(sl) == IF sl.step = None THEN 1 ELSE Val(sl.step)
SlInLimits(sl, n) ==
    0 <= SlLo(sl) /\ SlLo(sl) < n /\ 0 < SlHi(sl, n) /\ SlHi(sl, n) <= n
FreshSlice == ixop.name = "slice" /\ ixop.pos0 = 0

\* C8 (as claimed): on an unconsumed Indexer a slice within the limits (here
\* with start < stop and a step that is None or at least 1) returns the
\* vertical stack of the elements start, start + step, ... below stop, and a
\* slice outside the limits raises a ValueError.
C8_SliceReturnsVStack ==
    FreshSlice =>
        IF SlInLimits(ixop.sl, ix.iterlen)
          THEN (SlLo(ixop.sl) < SlHi(ixop.sl, ix.iterlen) /\ SlStep(ixop.sl) >= 1) =>
                 /\ ixout.kind = "ok"
                 /\ ixout.value =
                      StackDown(Stepped(SlLo(ixop.sl), SlHi(ixop.sl, ix.iterlen),
                                        SlStep(ixop.sl)))
          ELSE ixout.kind = "ValueError"

\* C8 (amended): on an unconsumed Indexer a slice within the limits, with
\* start < stop and a step that is None or at least 1, returns the horizontal
\* stack (numpy.hstack: the elements side by side) of the elements start,
\* start + step, ... below stop in increasing order; a slice outside the
\* limits raises a ValueError.
C8_SliceReturnsHStack ==
    FreshSlice =>
        IF SlInLimits(ixop.sl, ix.iterlen)
          THEN (SlLo(ixop.sl) < SlHi(ixop.sl, ix.iterlen) /\ SlStep(ixop.sl) >= 1) =>
                 /\ ixout.kind = "ok"
                 /\ ixout.value =
                      StackAcross(Stepped(SlLo(ixop.sl), SlHi(ixop.sl, ix.iterlen),
                                          SlStep(ixop.sl)))
          ELSE ixout.kind = "ValueError"

\* A slice with step 2 that takes the first and the third element
C8_Witness ==
    /\ FreshSlice
    /\ ix.iterlen = 3
    /\ ixop.sl = [start |-> None, stop |-> None, step |-> Some(2)]
    /\ ixout.kind = "ok"
    /\ ixout.value = StackAcross(<<0, 2>>)

\* C9 (as claimed): on an unconsumed Indexer a list of indices in [0, L)
\* returns the stack of the elements at these positions in the order given.
C9_ListReturnsRequested ==
    (ixop.name = "list" /\ ixop.pos0 = 0 /\ ixop.lst # << >>
        /\ \A k \in 1..Len(ixop.lst) : ixop.lst[k] < ix.iterlen) =>
        (ixout.kind = "ok" /\ ixout.value = StackAcross(ixop.lst))

-----------------------------------------------------------------------------
(* The AnalogData state machine: an object with data and, possibly, a trial  *)
(* definition, whose trials are accessed again and again                     *)

Item2D(nr, nc) == [hasShape |-> TRUE, shape |-> <<nr, nc>>]

\* The data of nr rows and nc columns: one memory map, or a VirtualData of
\* two chunks split at any row
DataOf(nr, nc) ==
    {[kind |-> "memmap", data |-> ChunkData(1, nr, nc)]}
      \cup {[kind |-> "virtual",
             data |-> VD_attrs(<<Item2D(k, nc), Item2D(nr - k, nc)>>)] :
               k \in 1..(nr - 1)}

\* Trial definitions on ns samples: up to MaxTrials trials [start, stop)
Intervals(ns) == {iv \in (0..ns) \X (0..ns) : iv[1] < iv[2]}
SampleInfos(ns) == UNION {[1..t -> Intervals(ns)] : t \in 1..MaxTrials}

ADObjects ==
    UNION {
      UNION {
        {[kind |-> d.kind, data |-> d.data, dimord |-> dimord,
          sampleinfo |-> si, hasTrialinfo |-> si # << >>] :
            d \in (IF dimord[1] = "time" THEN DataOf(ns, NChannels)
                                         ELSE DataOf(NChannels, ns)),
            si \in SampleInfos(ns) \cup {<< >>}} :
        dimord \in {<<"time", "channel">>, <<"channel", "time">>}} :
      ns \in 2..MaxSamples}

\* obj.trials
ADTrials ==
    /\ adop' = [name |-> "trials", k |-> 0, prev |-> -1]
    /\ adout' = [kind  |-> ContinuousData_trials(ad).kind,
                 value |-> NoArray,
                 iterlen |-> ContinuousData_trials(ad).iterlen,
                 pos |-> ContinuousData_trials(ad).pos]
    /\ UNCHANGED ad
    /\ UNCHANGED <<vdVars, ixVars, bdVars, rdVars, slVars, cfVars, cgVars>>

\* obj.trials[k]: the Indexer that this access of `trials` returns, indexed
ADGetTrial ==
    /\ \E k \in -1..NumTrials(ad) :
         LET t == ContinuousData_trials(ad)
             r == IF t.kind = "None" THEN IxFail("TypeError", 0)
                  ELSE Indexer_getint([iterlen |-> t.iterlen, pos |-> t.pos],
                                      TrialMap(ad), k)
         IN  /\ adop' = [name |-> "trial", k |-> k,
                         prev |-> IF adop.name = "trial" THEN adop.k ELSE -1]
             /\ adout' = [kind |-> r.kind, value |-> r.value,
                          iterlen |-> t.iterlen, pos |-> r.pos]
    /\ UNCHANGED ad
    /\ UNCHANGED <<vdVars, ixVars, bdVars, rdVars, slVars, cfVars, cgVars>>

InitAD ==
    /\ VDIdle /\ IxIdle /\ BDIdle /\ RDIdle /\ SLIdle /\ CFIdle /\ CGIdle
    /\ ad \in ADObjects
    /\ adop = NoOp
    /\ adout = NoOut

NextAD == ADTrials \/ ADGetTrial

SpecAD == InitAD /\ [][NextAD]_vars

-----------------------------------------------------------------------------
(* Properties of the trial access *)

\* The dense data of an AnalogData
DenseData(self) == IF self.kind = "virtual" THEN Dense(self.data) ELSE self.data

\* The samples [s0, s1) of the dense data, every other axis in full
TrialOf(self, k) ==
    LET d  == DenseData(self)
        s0 == self.sampleinfo[k + 1][1]
        s1 == self.sampleinfo[k + 1][2]
    IN  IF self.dimord[1] = "time"
          THEN Block(d, s0, s1, 0, Len(d[1]))
          ELSE Block(d, 0, Len(d), s0, s1)

\* C10: with a trial definition of T trials `trials` is an unconsumed Indexer
\* of length T and every access obj.trials[k], 0 <= k < T, in any order,
\* returns the samples [sampleinfo[k,0], sampleinfo[k,1]) of the time axis
\* with the other axis in full; without a trial definition `trials` is None.
C10_TrialAccess ==
    /\ (adop.name = "trials" /\ ad.hasTrialinfo) =>
          (adout.kind = "Indexer" /\ adout.iterlen = Len(ad.sampleinfo)
             /\ adout.pos = 0)
    /\ (adop.name = "trials" /\ ~ad.hasTrialinfo) => adout.kind = "None"
    /\ (adop.name = "trial" /\ ad.hasTrialinfo
          /\ 0 <= adop.k /\ adop.k < Len(ad.sampleinfo)) =>
          (adout.kind = "ok" /\ adout.value = TrialOf(ad, adop.k))

\* Trial 0 accessed after trial 1, on a VirtualData whose time axis is the
\* column axis, the two trials being different sample ranges
C10_Witness ==
    /\ adop.name = "trial" /\ adop.k = 0 /\ adop.prev = 1
    /\ ad.kind = "virtual" /\ ad.dimord[1] = "channel"
    /\ Len(ad.sampleinfo) = 2
    /\ ad.sampleinfo[1] # ad.sampleinfo[2]
    /\ adout.kind = "ok"
    /\ adout.value = TrialOf(ad, 0)

-----------------------------------------------------------------------------
(* BaseData: the life of a data object and of its backing file             *)
(*                                                                         *)
(* A path is a directory and a file number.  The directories are           *)
(*   "storage"  __storage__, the managed temporary-storage directory,      *)
(*   "user"     a directory of the user outside __storage__,               *)
(*   "nested"   a directory of the user outside __storage__ whose path     *)
(*              holds the path of __storage__ as a substring,              *)
(*   "raw"      the directory of the raw files a VirtualData is read from, *)
(*   "out"      the directory of the containers written by save_spy.       *)
(* The content of a file or of a buffer is one number.  A memory map keeps *)
(* what was written through it (mem) apart from what its file holds on     *)
(* disk; flush() carries the one to the other.                             *)

MaxObjs == 2      \* data objects (wrappers) created in one run
MaxVal == 2       \* distinct contents of a file or of a buffer

Path(root, n) == [root |-> root, n |-> n]
UserPaths == {Path("user", 1), Path("nested", 1)}
RawPath == Path("raw", 1)
OutPath == Path("out", 1)
TempPaths == {Path("storage", i) : i \in 1..MaxObjs}
AllPaths == UserPaths \cup {RawPath, OutPath} \cup TempPaths

\* A file name is a str or, for an object read from several raw files, the
\* list of their names (p is then the first of them)
StrName(p) == [t |-> "str", p |-> p]
ListName(p) == [t |-> "list", p |-> p]

\* "__storage__ in self._filename": the substring test of str, and for a
\* list the membership of the directory itself among the file names
StorageIn(filename) ==
    filename.t = "str" /\ filename.p.root \in {"storage", "nested"}

\* os.path.exists and os.unlink
exists(files, p) == files[p] # None
unlink(files, p) == [files EXCEPT ![p] = None]

\* shutil.copyfile(src, dst), src existing
copyfile(files, src, dst) == [files EXCEPT ![dst] = files[src]]

\* BaseData._gen_filename(): a name in __storage__ made of a random hash;
\* the name made for wrapper number c is never made again
gen_filename(c) == StrName(Path("storage", c))

NoObj ==
    [st |-> "free", filename |-> StrName(RawPath), data |-> None,
     sampleinfo |-> None, trialinfo |-> None]
NoBuf ==
    [kind |-> "free", file |-> RawPath, mode |-> "r", mem |-> 0,
     dirty |-> FALSE]

\* BaseData.__init__ without a source: no data, a fresh name, no file
BaseData_init(c) ==
    [st |-> "live", filename |-> gen_filename(c), data |-> None,
     sampleinfo |-> None, trialinfo |-> None]

\* The sources an object is loaded from: a file of the user opened as one
\* memory map in the given mode, or raw files read as a VirtualData
Sources ==
    {[kind |-> "memmap", file |-> p, mode |-> m] :
        p \in UserPaths, m \in {"r", "r+"}}
      \cup {[kind |-> "virtual", file |-> RawPath, mode |-> "r"]}

\* What the maps opened on file p show: the writes not yet flushed, if
\* any (all maps of one file share its pages), else what the disk holds
Shown(buffers, files, p) ==
    IF \E k \in DOMAIN buffers :
         buffers[k].kind = "memmap" /\ buffers[k].file = p /\ buffers[k].dirty
      THEN LET k == CHOOSE k \in DOMAIN buffers :
                      buffers[k].kind = "memmap" /\ buffers[k].file = p
                        /\ buffers[k].dirty
           IN  Some(buffers[k].mem)
      ELSE files[p]

\* spy.load_data(filename, out=self) and the trial definition that follows
\* it: the object names the file of the user and holds a buffer opened on it
load_data(self, c, src, buffers, files) ==
    [obj |-> [self EXCEPT
                !.filename = IF src.kind = "virtual" THEN ListName(src.file)
                             ELSE StrName(src.file),
                !.data = Some(c),
                !.sampleinfo = Some(c),
                !.trialinfo = Some(c)],
     buf |-> [kind |-> src.kind, file |-> src.file, mode |-> src.mode,
              mem |-> Val(Shown(buffers, files, src.file)),
              dirty |-> \E k \in DOMAIN buffers :
                          buffers[k].kind = "memmap"
                            /\ buffers[k].file = src.file /\ buffers[k].dirty]]

\* numpy.memmap.flush(): what was written through the map reaches its file
SamePages(buffers, k, b) ==
    buffers[k].kind = "memmap" /\ buffers[k].file = buffers[b].file
memmap_flush_nowrite(b, buffers, files) ==
    [bufs |-> buffers, fs |-> files]
memmap_flush(b, buffers, files) ==
    [bufs |-> [k \in DOMAIN buffers |->
                 IF SamePages(buffers, k, b)
                   THEN [buffers[k] EXCEPT !.dirty = FALSE] ELSE buffers[k]],
     fs   |-> IF buffers[b].dirty /\ exists(files, buffers[b].file)
                THEN [files EXCEPT ![buffers[b].file] = Some(buffers[b].mem)]
                ELSE files]

\* self.data[...] = v on a writable memory map
memmap_write(b, v, buffers) ==
    [k \in DOMAIN buffers |->
       IF SamePages(buffers, k, b)
         THEN [buffers[k] EXCEPT !.mem = v, !.dirty = TRUE] ELSE buffers[k]]

\* isinstance(self.data, VirtualData), hasattr(self.data, "clear")
IsVirtual(self, buffers) ==
    self.data # None /\ buffers[Val(self.data)].kind = "virtual"

\* BaseData.__del__
BaseData_del_nounlink(self, files) ==
    [obj |-> [self EXCEPT !.st = "dead"], fs |-> files]
BaseData_del(self, files) ==
    IF StorageIn(self.filename) /\ exists(files, self.filename.p)
      THEN [obj |-> [self EXCEPT !.st = "dead", !.data = None],
            fs  |-> unlink(files, self.filename.p)]
      ELSE [obj |-> [self EXCEPT !.st = "dead"], fs |-> files]

BDOut(kind, ret, warned, handed) ==
    [kind |-> kind, ret |-> ret, warned |-> warned, handed |-> handed]

\* BaseData.copy(deep) of object o, the new wrapper being number c.  A
\* wrapper that is not returned is dropped at once: its __del__ runs.
BaseData_copy_alwaysshallow(o, deep, c) ==
    [out |-> BDOut("ok", Some(c), FALSE, FALSE),
     objs |-> [objs EXCEPT ![c] = objs[o]], bufs |-> bufs, fs |-> fs]
BaseData_copy_freshname(o, deep, c) ==
    [out |-> BDOut("ok", Some(c), FALSE, FALSE),
     objs |-> [objs EXCEPT ![c] = [objs[o] EXCEPT !.filename = gen_filename(c)]],
     bufs |-> bufs, fs |-> fs]
BaseData_copy(o, deep, c) ==
    LET self == objs[o]
        cpy  == self
    IN  IF ~deep
          THEN [out |-> BDOut("ok", Some(c), FALSE, FALSE),
                objs |-> [objs EXCEPT ![c] = cpy], bufs |-> bufs, fs |-> fs]
        ELSE IF IsVirtual(self, bufs)
          THEN [out |-> BDOut("ok", None, TRUE, FALSE),
                objs |-> objs, bufs |-> bufs,
                fs |-> BaseData_del(cpy, fs).fs]
        ELSE IF self.data = None
          THEN [out |-> BDOut("AttributeError", None, FALSE, FALSE),
                objs |-> objs, bufs |-> bufs,
                fs |-> BaseData_del(cpy, fs).fs]
        ELSE
          LET b   == Val(self.data)
              fl  == memmap_flush(b, bufs, fs)
              new == [cpy EXCEPT !.filename = gen_filename(c)]
          IN  IF ~exists(fl.fs, self.filename.p)
                THEN [out |-> BDOut("FileNotFoundError", None, FALSE, FALSE),
                      objs |-> objs,
                      bufs |-> fl.bufs,
                      fs |-> BaseData_del(new, fl.fs).fs]
                ELSE [out |-> BDOut("ok", Some(c), FALSE, FALSE),
                      objs |-> [objs EXCEPT ![c] = new],
                      bufs |-> fl.bufs,
                      fs |-> copyfile(fl.fs, self.filename.p, new.filename.p)]

\* `data` is a property of BaseData with a getter and no setter:
\* "self.data = value" raises an AttributeError
HasDataSetter == FALSE

\* VirtualData.clear() as the data object sees it: every chunk is reopened
\* read-only on its file
VirtualData_clear(buf) == [buf EXCEPT !.mode = "r"]

\* open_memmap(filename, mode=mode)
open_memmap(file, mode, buffers, files) ==
    [kind |-> "memmap", file |-> file, mode |-> mode,
     mem |-> Val(Shown(buffers, files, file)), dirty |-> FALSE]

\* AnalogData.clear() (BaseData.clear() is its last branch)
AnalogData_clear(o) ==
    LET self == objs[o]
    IN  IF self.data = None
          THEN [out |-> BDOut("ok", None, FALSE, FALSE),
                bufs |-> bufs, fs |-> fs]
        ELSE IF IsVirtual(self, bufs)
          THEN [out |-> BDOut("ok", None, FALSE, FALSE),
                bufs |-> [bufs EXCEPT ![Val(self.data)] =
                                        VirtualData_clear(@)],
                fs |-> fs]
        ELSE
          LET b  == Val(self.data)
              fl == memmap_flush(b, bufs, fs)
          IN  IF HasDataSetter
                THEN [out |-> BDOut("ok", None, FALSE, FALSE),
                      bufs |-> [fl.bufs EXCEPT ![b] =
                                  open_memmap(bufs[b].file, bufs[b].mode,
                                              fl.bufs, fl.fs)],
                      fs |-> fl.fs]
                ELSE [out |-> BDOut("AttributeError", None, FALSE, FALSE),
                      bufs |-> fl.bufs,
                      fs |-> fl.fs]

\* The file types handed to save: None, strings, and a value of another type
NoneType == [t |-> "None", s |-> ""]
StrType(s) == [t |-> "str", s |-> s]
FileTypes ==
    {NoneType, [t |-> "int", s |-> ""]}
      \cup {StrType(s) : s \in {".spy", "matlab", ".mat", "mat", "", ".npy"}}

supportedFormats == {".spy"}

\* filetype in ".mat": the substrings of ".mat"
InDotMat(s) ==
    s \in {"", ".", "m", "a", "t", ".m", "ma", "at", ".ma", "mat", ".mat"}

\* save_data(out_name, out, filetype): the routine it ends in
save_data(filetype) ==
    IF filetype.t \notin {"None", "str"} THEN "SPYTypeError"
    ELSE IF filetype.t = "None" \/ filetype.s \in supportedFormats
      THEN "save_spy"
    ELSE IF filetype.s = "matlab" \/ InDotMat(filetype.s)
      THEN "NotImplementedError"
    ELSE "return"

\* save_spy(out_name, out): the container holds what the data buffer shows
save_spy(self, buffers, files) ==
    [files EXCEPT ![OutPath] = Some(buffers[Val(self.data)].mem)]

\* BaseData.save(out_name, filetype): spy.save_data and nothing before it
BaseData_save(o, filetype) ==
    LET to == save_data(filetype)
    IN  [out |-> BDOut(IF to \in {"save_spy", "return"} THEN "ok" ELSE to,
                       None, FALSE, to = "save_spy"),
         fs |-> IF to = "save_spy" THEN save_spy(objs[o], bufs, fs) ELSE fs]

-----------------------------------------------------------------------------
(* The data-object state machine *)

BDOp(name, o, deep, ft) == [name |-> name, obj |-> o, deep |-> deep, ft |-> ft]
BDNoOp == BDOp("none", 0, FALSE, NoneType)
BDNoOut == BDOut("none", None, FALSE, FALSE)

ObjIds == 1..MaxObjs
Live == {o \in DOMAIN objs : objs[o].st = "live"}
HasFree == \E c \in DOMAIN objs : objs[c].st = "free"
\* Wrappers are numbered in the order of their creation
FreeSlot ==
    CHOOSE c \in DOMAIN objs :
      objs[c].st = "free" /\ \A d \in 1..(c - 1) : objs[d].st # "free"

\* The memory map of object o, when its data is one
IsMemmap(o) == objs[o].data # None /\ bufs[Val(objs[o].data)].kind = "memmap"

\* obj = AnalogData()
BDNew ==
    /\ HasFree
    /\ objs' = [objs EXCEPT ![FreeSlot] = BaseData_init(FreeSlot)]
    /\ bdop' = BDOp("init", FreeSlot, FALSE, NoneType)
    /\ bdout' = BDOut("ok", Some(FreeSlot), FALSE, FALSE)
    /\ UNCHANGED <<bufs, fs>>
    /\ UNCHANGED <<vdVars, ixVars, adVars, rdVars, slVars, cfVars, cgVars>>

\* obj = AnalogData(filename, trialdefinition) on an existing source
BDLoad ==
    /\ HasFree
    /\ \E src \in Sources :
         /\ exists(fs, src.file)
         /\ LET c == FreeSlot
                r == load_data(BaseData_init(c), c, src, bufs, fs)
            IN  /\ objs' = [objs EXCEPT ![c] = r.obj]
                /\ bufs' = [bufs EXCEPT ![c] = r.buf]
                /\ bdop' = BDOp("load", c, FALSE, NoneType)
                /\ bdout' = BDOut("ok", Some(c), FALSE, FALSE)
    /\ UNCHANGED fs
    /\ UNCHANGED <<vdVars, ixVars, adVars, rdVars, slVars, cfVars, cgVars>>

\* obj.data[...] = v, the data being a memory map opened for writing
BDWriteOf(o, v) ==
    /\ IsMemmap(o)
    /\ bufs[Val(objs[o].data)].mode = "r+"
    /\ bufs[Val(objs[o].data)].mem # v
    /\ bufs' = memmap_write(Val(objs[o].data), v, bufs)
    /\ bdop' = BDOp("write", o, FALSE, NoneType)
    /\ bdout' = BDOut("ok", None, FALSE, FALSE)
    /\ UNCHANGED <<objs, fs>>
    /\ UNCHANGED <<vdVars, ixVars, adVars, rdVars, slVars, cfVars, cgVars>>

BDWrite == \E o \in Live, v \in 1..MaxVal : BDWriteOf(o, v)

\* obj.copy(deep)
BDCopyOf(o, deep) ==
    /\ HasFree
    /\ LET r == BaseData_copy(o, deep, FreeSlot)
       IN  /\ objs' = r.objs
           /\ bufs' = r.bufs
           /\ fs' = r.fs
           /\ bdout' = r.out
    /\ bdop' = BDOp("copy", o, deep, NoneType)
    /\ UNCHANGED <<vdVars, ixVars, adVars, rdVars, slVars, cfVars, cgVars>>

BDCopy == \E o \in Live, deep \in BOOLEAN : BDCopyOf(o, deep)

\* obj.clear()
BDClearOf(o) ==
    /\ LET r == AnalogData_clear(o)
       IN  /\ bufs' = r.bufs
           /\ fs' = r.fs
           /\ bdout' = r.out
    /\ bdop' = BDOp("clear", o, FALSE, NoneType)
    /\ UNCHANGED objs
    /\ UNCHANGED <<vdVars, ixVars, adVars, rdVars, slVars, cfVars, cgVars>>

BDClear == \E o \in Live : BDClearOf(o)

\* The last reference to obj is dropped: obj.__del__()
BDDelOf(o) ==
    /\ LET r == BaseData_del(objs[o], fs)
       IN  /\ objs' = [objs EXCEPT ![o] = r.obj]
           /\ fs' = r.fs
           /\ bdout' = BDOut(IF r.fs # fs THEN "unlinked" ELSE "ok",
                             None, FALSE, FALSE)
    /\ bdop' = BDOp("del", o, FALSE, NoneType)
    /\ UNCHANGED bufs
    /\ UNCHANGED <<vdVars, ixVars, adVars, rdVars, slVars, cfVars, cgVars>>

BDDel == \E o \in Live : BDDelOf(o)

\* obj.save(out_name, filetype) of an object that holds data
BDSaveOf(o, filetype) ==
    /\ objs[o].data # None
    /\ LET r == BaseData_save(o, filetype)
       IN  /\ fs' = r.fs
           /\ bdout' = r.out
    /\ bdop' = BDOp("save", o, FALSE, filetype)
    /\ UNCHANGED <<objs, bufs>>
    /\ UNCHANGED <<vdVars, ixVars, adVars, rdVars, slVars, cfVars, cgVars>>

BDSave == \E o \in Live, filetype \in FileTypes : BDSaveOf(o, filetype)

\* No object yet; the files of the user and the raw files exist, the
\* managed storage is empty
InitBD ==
    /\ VDIdle /\ IxIdle /\ ADIdle /\ RDIdle /\ SLIdle /\ CFIdle /\ CGIdle
    /\ objs = [o \in ObjIds |-> NoObj]
    /\ bufs = [b \in ObjIds |-> NoBuf]
    /\ fs = [p \in AllPaths |->
               IF p \in UserPaths \cup {RawPath} THEN Some(1) ELSE None]
    /\ bdop = BDNoOp
    /\ bdout = BDNoOut

NextBD == BDNew \/ BDLoad \/ BDWrite \/ BDCopy \/ BDClear \/ BDDel

SpecBD == InitBD /\ [][NextBD]_vars

\* Saving: objects are loaded, written through and saved
NextSV == BDLoad \/ BDWrite \/ BDSave

SpecSV == InitBD /\ [][NextSV]_vars

-----------------------------------------------------------------------------
(* Properties of the data objects and their files *)

FileOf(o) == objs[o].filename.p

\* The file of object o lies in the managed storage
InStorage(o) == objs[o].filename.t = "str" /\ FileOf(o).root = "storage"

\* Object o is backed by a single real file: its data is one memory map and
\* the file it names exists
SingleFile(o) ==
    /\ IsMemmap(o)
    /\ objs[o].filename.t = "str"
    /\ exists(fs, FileOf(o))

\* C11: when an object whose file lies in the managed storage is discarded
\* while that file exists, its buffer reference is detached and the file no
\* longer exists afterwards.
C11_DiscardUnlinks ==
    [][\A o \in ObjIds :
         (o \in Live /\ BDDelOf(o) /\ InStorage(o) /\ exists(fs, FileOf(o)))
           => (/\ objs'[o].st = "dead"
               /\ objs'[o].data = None
               /\ ~exists(fs', FileOf(o)))]_vars

\* A deep copy, whose file lies in the managed storage, has been discarded
C11_Witness ==
    /\ bdop.name = "del"
    /\ bdout.kind = "unlinked"
    /\ InStorage(bdop.obj)
    /\ objs[bdop.obj].st = "dead"
    /\ objs[bdop.obj].data = None
    /\ ~exists(fs, FileOf(bdop.obj))

\* C12: a file outside the managed storage is never deleted, whatever the
\* objects constructed on it, copied, cleared and discarded, also when its
\* path merely holds the path of the managed storage as a substring.
C12_OutsideFilesKept == \A p \in UserPaths : exists(fs, p)

\* C13: copy(deep=True) of an object backed by a single real file returns a
\* new object with another file name, whose file is a copy of the file of
\* the source as it was at the copy (writes through the map included) and
\* whose data, sampleinfo and trial definition equal those of the source;
\* the file name and the file content of the source are unchanged.
C13_DeepCopy ==
    [][\A o \in ObjIds :
         (o \in Live /\ SingleFile(o) /\ BDCopyOf(o, TRUE))
           => (/\ bdout'.kind = "ok"
               /\ bdout'.ret # None
               /\ LET c == Val(bdout'.ret)
                  IN  /\ c # o
                      /\ objs'[c].st = "live"
                      /\ objs'[c].filename.t = "str"
                      /\ objs'[c].filename # objs[o].filename
                      /\ fs'[objs'[c].filename.p] = Shown(bufs, fs, FileOf(o))
                      /\ fs'[objs'[c].filename.p] = fs'[FileOf(o)]
                      /\ objs'[c].data # None
                      /\ bufs'[Val(objs'[c].data)].mem
                           = bufs'[Val(objs'[o].data)].mem
                      /\ objs'[c].sampleinfo = objs[o].sampleinfo
                      /\ objs'[c].trialinfo = objs[o].trialinfo
               /\ objs'[o] = objs[o]
               /\ bufs'[Val(objs[o].data)].mem = bufs[Val(objs[o].data)].mem
               /\ Shown(bufs', fs', FileOf(o)) = Shown(bufs, fs, FileOf(o)))]_vars

\* A deep copy of an object whose map held a write not yet flushed: the
\* file of the copy holds what was written
C13_Witness ==
    /\ bdop.name = "copy" /\ bdop.deep
    /\ bdout.kind = "ok" /\ bdout.ret # None
    /\ IsMemmap(bdop.obj)
    /\ objs[Val(bdout.ret)].filename # objs[bdop.obj].filename
    /\ bufs[Val(objs[bdop.obj].data)].file = FileOf(bdop.obj)
    /\ bufs[Val(objs[bdop.obj].data)].mem = MaxVal
    /\ fs[objs[Val(bdout.ret)].filename.p] = Some(MaxVal)

\* C14: copy(deep=True) of an object whose data is a VirtualData warns and
\* returns None without raising; no file is created, copied or deleted and
\* the source keeps its file name and its data.
C14_DeepCopyVirtual ==
    [][\A o \in ObjIds :
         (o \in Live /\ IsVirtual(objs[o], bufs) /\ BDCopyOf(o, TRUE))
           => (/\ bdout'.kind = "ok"
               /\ bdout'.warned
               /\ bdout'.ret = None
               /\ fs' = fs
               /\ objs' = objs
               /\ bufs' = bufs)]_vars

C14_Witness ==
    /\ bdop.name = "copy" /\ bdop.deep
    /\ IsVirtual(objs[bdop.obj], bufs)
    /\ bdout.kind = "ok" /\ bdout.warned /\ bdout.ret = None
    /\ \A p \in UserPaths \cup {RawPath} : exists(fs, p)

\* C15: copy() with deep=False returns a distinct wrapper with the same
\* file name that refers to the very same data buffer, sampleinfo and trial
\* information; the call creates, copies, writes and deletes no file.
C15_ShallowCopy ==
    [][\A o \in ObjIds :
         (o \in Live /\ BDCopyOf(o, FALSE))
           => (/\ bdout'.kind = "ok"
               /\ bdout'.ret # None
               /\ LET c == Val(bdout'.ret)
                  IN  /\ c # o
                      /\ objs[c].st = "free"
                      /\ objs'[c].st = "live"
                      /\ objs'[c].filename = objs[o].filename
                      /\ objs'[c].data = objs[o].data
                      /\ objs'[c].sampleinfo = objs[o].sampleinfo
                      /\ objs'[c].trialinfo = objs[o].trialinfo
               /\ objs'[o] = objs[o]
               /\ fs' = fs
               /\ bufs' = bufs)]_vars

\* A shallow copy of an object whose memory map holds a write not yet
\* flushed: nothing reached the disk
C15_Witness ==
    /\ bdop.name = "copy" /\ ~bdop.deep
    /\ bdout.kind = "ok" /\ bdout.ret # None
    /\ IsMemmap(bdop.obj)
    /\ bufs[Val(objs[bdop.obj].data)].dirty
    /\ objs[Val(bdout.ret)].filename = objs[bdop.obj].filename
    /\ objs[Val(bdout.ret)].data = objs[bdop.obj].data

\* C16: clear() of an object whose data is a memory map completes without
\* error and leaves the object with a data buffer opened on the same file,
\* in the same mode, with the same contents; on a VirtualData it keeps the
\* same VirtualData; on an object without data it does nothing.
C16_ClearKeepsBuffer ==
    [][\A o \in ObjIds :
         (o \in Live /\ BDClearOf(o))
           => (/\ bdout'.kind = "ok"
               /\ objs' = objs
               /\ objs[o].data = None => (bufs' = bufs /\ fs' = fs)
               /\ IsVirtual(objs[o], bufs) =>
                    LET b == Val(objs[o].data)
                    IN  /\ bufs'[b].kind = "virtual"
                        /\ bufs'[b].file = bufs[b].file
                        /\ bufs'[b].mem = bufs[b].mem
               /\ IsMemmap(o) =>
                    LET b == Val(objs[o].data)
                    IN  /\ bufs'[b].kind = "memmap"
                        /\ bufs'[b].file = bufs[b].file
                        /\ bufs'[b].mode = bufs[b].mode
                        /\ bufs'[b].mem = bufs[b].mem)]_vars

\* C19: whenever an object whose data is a memory map is saved, its buffer
\* has been flushed when the writing routine is handed the object.
C19_FlushedBeforeSave ==
    (bdop.name = "save" /\ bdout.handed /\ IsMemmap(bdop.obj))
      => ~bufs[Val(objs[bdop.obj].data)].dirty

-----------------------------------------------------------------------------
(* VirtualData.clear(): the chunks are memory maps of raw files *)

MaxClears == 2    \* calls of clear() on one VirtualData

\* Raw file number f: the length of its header and the rank of its element
\* type (chunk k of a VirtualData is opened on raw file k)
HeaderLen(f) == 8 * f
DtypeOf(f) == 1 + (f % 2)

\* numpy.memmap(fname, offset, mode, dtype, shape): the array that file f
\* shows from the given offset, read as the given element type
np_memmap(f, offset, dtype, nr, nc) ==
    [r \in 1..nr |->
       [c \in 1..nc |->
          Cell(f, r, c) + 1000 * (offset - HeaderLen(f))
                        + 5000 * (dtype - DtypeOf(f))]]

\* numpy.max(dtypes)
RECURSIVE MaxDtype(_, _)
MaxDtype(mmaps, k) ==
    IF k = Len(mmaps) THEN mmaps[k].dtype
    ELSE Max(mmaps[k].dtype, MaxDtype(mmaps, k + 1))

\* VirtualData(chunk_list) for chunks that are memory maps of the raw files
\* 1, 2, ... opened in the given mode: the attributes set by __init__
\* together with filename, offset, dtype and mode of every chunk
VD_open(items, mode) ==
    LET a == VD_attrs(items)
        mmaps == [k \in 1..Len(items) |->
                    [filename |-> k, offset |-> HeaderLen(k),
                     dtype |-> DtypeOf(k), mode |-> mode]]
    IN  [M |-> a.M, N |-> a.N, shape |-> a.shape, size |-> a.size,
         nrows |-> a.nrows, rows |-> a.rows, data |-> a.data,
         dtype |-> MaxDtype(mmaps, 1), mmaps |-> mmaps]

\* VirtualData.clear()
VD_clear_nooffset(self) ==
    [self EXCEPT
       !.data  = [k \in 1..Len(self.mmaps) |->
                    np_memmap(self.mmaps[k].filename, 0, self.mmaps[k].dtype,
                              Len(self.data[k]), Len(self.data[k][1]))],
       !.mmaps = [k \in 1..Len(self.mmaps) |->
                    [self.mmaps[k] EXCEPT !.offset = 0, !.mode = "r"]]]
VD_clear(self) ==
    LET shapes == [k \in 1..Len(self.data) |->
                     <<Len(self.data[k]), Len(self.data[k][1])>>]
        dtypes == [k \in 1..Len(self.data) |-> self.mmaps[k].dtype]
        fnames == [k \in 1..Len(self.data) |-> self.mmaps[k].filename]
        offset == [k \in 1..Len(self.data) |-> self.mmaps[k].offset]
    IN  [self EXCEPT
           !.data  = [k \in 1..Len(fnames) |->
                        np_memmap(fnames[k], offset[k], dtypes[k],
                                  shapes[k][1], shapes[k][2])],
           !.mmaps = [k \in 1..Len(fnames) |->
                        [filename |-> fnames[k], offset |-> offset[k],
                         dtype |-> dtypes[k], mode |-> "r"]]]

VCOp(name, qrow, qcol, clears) ==
    [name |-> name, qrow |-> qrow, qcol |-> qcol, clears |-> clears]

\* The reads tried between the calls of clear(): every slice of rows, the
\* columns in full or the first of them
VCRows(n) == {SliceIdx(a, b) : a \in OptInt(0..n), b \in OptInt(0..n)}
VCCols == {SliceIdx(None, None), SliceIdx(Some(0), Some(1))}

\* vd[qrow, qcol], no result of an earlier call pending
VCRead ==
    /\ vdop.name \in {"open", "idle"}
    /\ \E qrow \in VCRows(vd.M), qcol \in VCCols :
         /\ vdop' = VCOp("getitem", qrow, qcol, vdop.clears)
         /\ vdout' = VD_getitem(vd, qrow, qcol)
    /\ UNCHANGED vd
    /\ UNCHANGED <<ixVars, adVars, bdVars, rdVars, slVars, cfVars, cgVars>>

\* The caller takes the result
VCReturn ==
    /\ vdop.name = "getitem"
    /\ vdop' = VCOp("idle", FullSlice, FullSlice, vdop.clears)
    /\ vdout' = [kind |-> "ok", value |-> NoArray, reads |-> {}]
    /\ UNCHANGED vd
    /\ UNCHANGED <<ixVars, adVars, bdVars, rdVars, slVars, cfVars, cgVars>>

\* vd.clear()
VCClear ==
    /\ vdop.name \in {"open", "idle"}
    /\ vdop.clears < MaxClears
    /\ vd' = VD_clear(vd)
    /\ vdop' = VCOp("idle", FullSlice, FullSlice, vdop.clears + 1)
    /\ vdout' = [kind |-> "ok", value |-> NoArray, reads |-> {}]
    /\ UNCHANGED <<ixVars, adVars, bdVars, rdVars, slVars, cfVars, cgVars>>

\* A VirtualData over memory maps of raw files, opened for reading or for
\* reading and writing
InitVC ==
    /\ IxIdle /\ ADIdle /\ BDIdle /\ RDIdle /\ SLIdle /\ CFIdle /\ CGIdle
    /\ \E cl \in ChunkLists, mode \in {"r", "r+"} :
         /\ VD_init(cl).kind = "ok"
         /\ vd = VD_open(cl.items, mode)
    /\ vdop = VCOp("open", FullSlice, FullSlice, 0)
    /\ vdout = [kind |-> "ok", value |-> NoArray, reads |-> {}]

NextVC == VCRead \/ VCReturn \/ VCClear

SpecVC == InitVC /\ [][NextVC]_vars

\* The chunks as the raw files held them at construction, stacked row-wise
RECURSIVE RawStack(_, _)
RawStack(self, k) ==
    IF k > Len(self.nrows) THEN << >>
    ELSE np_memmap(k, HeaderLen(k), DtypeOf(k), self.nrows[k], self.N)
           \o RawStack(self, k + 1)

\* C17: VirtualData.clear() does not change what the array is: M, N, shape,
\* size, dtype and the row ranges of the chunks keep their values, the chunk
\* list keeps its length and order with every chunk reopened on its file at
\* its offset, shape and element type, and every read returns the values it
\* returned before the clear.
C17_ClearKeepsArray ==
    [][VCClear =>
         /\ vd'.M = vd.M /\ vd'.N = vd.N
         /\ vd'.shape = vd.shape /\ vd'.size = vd.size
         /\ vd'.dtype = vd.dtype
         /\ vd'.nrows = vd.nrows /\ vd'.rows = vd.rows
         /\ Len(vd'.data) = Len(vd.data)
         /\ \A k \in 1..Len(vd.data) :
              /\ vd'.mmaps[k].filename = vd.mmaps[k].filename
              /\ vd'.mmaps[k].offset = vd.mmaps[k].offset
              /\ vd'.mmaps[k].dtype = vd.mmaps[k].dtype
              /\ Len(vd'.data[k]) = Len(vd.data[k])
              /\ Len(vd'.data[k][1]) = Len(vd.data[k][1])
         /\ \A qrow \in VCRows(vd.M), qcol \in VCCols :
              VD_getitem(vd', qrow, qcol) = VD_getitem(vd, qrow, qcol)]_vars

\* A read across chunks after MaxClears calls of clear() on a VirtualData
\* opened for writing returns what the raw files held at construction
C17_Witness ==
    /\ vdop.name = "getitem"
    /\ vdop.clears = MaxClears
    /\ Len(vd.data) > 1
    /\ \A k \in 1..Len(vd.data) : vd.mmaps[k].mode = "r"
    /\ ValidRange(vdop.qrow, vd.M)
    /\ ChunkOfRow(vd, LoOf(vdop.qrow)) < ChunkOfRow(vd, HiOf(vdop.qrow, vd.M) - 1)
    /\ vdout.kind = "ok"
    /\ vdout.value = Block(RawStack(vd, 1), LoOf(vdop.qrow),
                           HiOf(vdop.qrow, vd.M), LoOf(vdop.qcol),
                           HiOf(vdop.qcol, vd.N))

-----------------------------------------------------------------------------
(* Concurrent readers of one VirtualData.  A call of __getitem__ is taken  *)
(* apart into the steps at which it looks at the object: the conversion of *)
(* the indices (self._M, self._N), the limit checks, the search of the     *)
(* chunks (self._rows) and one read per chunk (self._data[i]); the locals  *)
(* of the call (row, col, i1, i2, data) belong to the reader.              *)

Readers == {1, 2}

NoRange == [err |-> "ok", start |-> 0, stop |-> 0]
RDIdleReader ==
    [pc |-> "idle", qrow |-> FullSlice, qcol |-> FullSlice, row |-> NoRange,
     col |-> NoRange, i1 |-> 0, i2 |-> 0, k |-> 0, data |-> << >>,
     out |-> VDFail("none"), conc |-> FALSE]

RDDone(self, out) == [self EXCEPT !.pc = "done", !.out = out]

\* The chunks a read visits, in the order of its reads: i1, the chunks
\* between i1 and i2, i2; or the one chunk i1 = i2
ChunkOrder(i1, i2) ==
    IF i1 = i2 THEN <<i1>>
    ELSE <<i1>> \o [j \in 1..Max(i2 - i1 - 1, 0) |-> i1 + j] \o <<i2>>

\* What is read of chunk i: its tail from row.start when it is the first of
\* several chunks, its head up to row.stop when it is the last of them, all
\* its rows when it lies between them, the rows [row.start, row.stop) when
\* it is the only one
ReadPart_whole(self, i, i1, i2, row, col) ==
    Slice2D(self.data[i], 0, self.nrows[i], col.start, col.stop)
ReadPart(self, i, i1, i2, row, col) ==
    IF i1 = i2
      THEN Slice2D(self.data[i], LocalStart(self, i, row),
                   LocalStop(self, i, row), col.start, col.stop)
    ELSE IF i = i1
      THEN Slice2D(self.data[i], LocalStart(self, i, row), self.nrows[i],
                   col.start, col.stop)
    ELSE IF i = i2
      THEN Slice2D(self.data[i], 0, LocalStop(self, i, row),
                   col.start, col.stop)
    ELSE Slice2D(self.data[i], 0, self.nrows[i], col.start, col.stop)

\* The reads the readers try on an array of M rows: all of it, its last
\* row, all but the first row, row 0 as a number, a column of it, and a row
\* range beyond the array
RDQueries(M) ==
    {<<FullSlice, FullSlice>>,
     <<SliceIdx(Some(M - 1), None), FullSlice>>,
     <<SliceIdx(Some(1), Some(M)), FullSlice>>,
     <<IntIdx(0), FullSlice>>,
     <<FullSlice, SliceIdx(Some(0), Some(1))>>,
     <<SliceIdx(Some(0), Some(M + 1)), FullSlice>>}

InFlight(r) == rd[r].pc \notin {"idle", "done"}

\* Reader r calls vd[qrow, qcol]: the indices are made slices
RDCall(r) ==
    /\ rd[r].pc = "idle"
    /\ \E q \in RDQueries(vd.M) :
         LET row == ToSlice(q[1], vd.M)
             col == ToSlice(q[2], vd.N)
             me  == [RDIdleReader EXCEPT
                       !.qrow = q[1], !.qcol = q[2], !.row = row, !.col = col,
                       !.conc = \E s \in Readers \ {r} : InFlight(s)]
         IN  rd' = [rd EXCEPT ![r] =
                      IF row.err # "ok" THEN RDDone(me, VDFail(row.err))
                      ELSE IF col.err # "ok" THEN RDDone(me, VDFail(col.err))
                      ELSE [me EXCEPT !.pc = "check"]]
    /\ UNCHANGED <<vdVars, ixVars, adVars, bdVars, slVars, cfVars, cgVars>>

\* The limit checks
RDCheck(r) ==
    /\ rd[r].pc = "check"
    /\ rd' = [rd EXCEPT ![r] =
                IF OutOfLimits(rd[r].row, vd.M) \/ OutOfLimits(rd[r].col, vd.N)
                  THEN RDDone(@, VDFail("ValueError"))
                  ELSE [@ EXCEPT !.pc = "locate"]]
    /\ UNCHANGED <<vdVars, ixVars, adVars, bdVars, slVars, cfVars, cgVars>>

\* i1 and i2
RDLocate(r) ==
    /\ rd[r].pc = "locate"
    /\ LET w1 == WhereRow(vd, rd[r].row.start)
           w2 == WhereRow(vd, rd[r].row.stop - 1)
       IN  rd' = [rd EXCEPT ![r] =
                    IF Cardinality(w1) # 1 \/ Cardinality(w2) # 1
                      THEN RDDone(@, VDFail("ValueError"))
                      ELSE [@ EXCEPT !.pc = "read",
                                     !.i1 = CHOOSE k \in w1 : TRUE,
                                     !.i2 = CHOOSE k \in w2 : TRUE,
                                     !.k = 1]]
    /\ UNCHANGED <<vdVars, ixVars, adVars, bdVars, slVars, cfVars, cgVars>>

\* One chunk is read
RDReadChunk(r) ==
    /\ rd[r].pc = "read"
    /\ LET me    == rd[r]
           order == ChunkOrder(me.i1, me.i2)
           part  == ReadPart(vd, order[me.k], me.i1, me.i2, me.row, me.col)
       IN  rd' = [rd EXCEPT ![r] =
                    [@ EXCEPT !.data = Append(me.data, part),
                              !.k = me.k + 1,
                              !.pc = IF me.k = Len(order) THEN "stack"
                                                          ELSE "read"]]
    /\ UNCHANGED <<vdVars, ixVars, adVars, bdVars, slVars, cfVars, cgVars>>

\* The parts are stacked (several chunks) or the part is returned (one)
RDReturn(r) ==
    /\ rd[r].pc = "stack"
    /\ rd' = [rd EXCEPT ![r] =
                RDDone(@, [kind  |-> "ok",
                           value |-> IF rd[r].i1 = rd[r].i2 THEN rd[r].data[1]
                                     ELSE vstack(rd[r].data),
                           reads |-> {ChunkOrder(rd[r].i1, rd[r].i2)[j] :
                                        j \in 1..Len(rd[r].data)}])]
    /\ UNCHANGED <<vdVars, ixVars, adVars, bdVars, slVars, cfVars, cgVars>>

\* The caller takes the result or the exception
RDTake(r) ==
    /\ rd[r].pc = "done"
    /\ rd' = [rd EXCEPT ![r] = RDIdleReader]
    /\ UNCHANGED <<vdVars, ixVars, adVars, bdVars, slVars, cfVars, cgVars>>

\* One VirtualData, shared by the readers, none of them in a call
InitRD ==
    /\ IxIdle /\ ADIdle /\ BDIdle /\ SLIdle /\ CFIdle /\ CGIdle
    /\ \E cl \in ChunkLists :
         /\ VD_init(cl).kind = "ok"
         /\ vd = VD_init(cl).obj
    /\ vdop = NoOp
    /\ vdout = NoOut
    /\ rd = [r \in Readers |-> RDIdleReader]

NextRD ==
    \E r \in Readers :
       RDCall(r) \/ RDCheck(r) \/ RDLocate(r) \/ RDReadChunk(r)
         \/ RDReturn(r) \/ RDTake(r)

SpecRD == InitRD /\ [][NextRD]_vars

\* C18: a read writes no state of the VirtualData, so in every interleaving
\* of the reads of independent readers each reader gets the result it would
\* get alone, and the object is after the reads what it was before them.
C18_ReadersIndependent ==
    [][/\ vd' = vd
       /\ \A r \in Readers :
            rd'[r].pc = "done" =>
              /\ rd'[r].out = VD_getitem(vd, rd'[r].qrow, rd'[r].qcol)
              /\ (ValidRange(rd'[r].qrow, vd.M) /\ ValidRange(rd'[r].qcol, vd.N))
                   => /\ rd'[r].out.kind = "ok"
                      /\ rd'[r].out.value =
                           Block(Dense(vd), LoOf(rd'[r].qrow),
                                 HiOf(rd'[r].qrow, vd.M), LoOf(rd'[r].qcol),
                                 HiOf(rd'[r].qcol, vd.N))]_vars

\* Reader 2 made a whole read across chunks while reader 1 was between two
\* chunk reads of another read across chunks
C18_Witness ==
    /\ rd[1].pc = "read" /\ rd[1].k = 2 /\ rd[1].i1 < rd[1].i2
    /\ rd[2].pc = "done" /\ rd[2].conc
    /\ rd[2].out.kind = "ok"
    /\ Cardinality(rd[2].out.reads) > 1
    /\ rd[2].qrow # rd[1].qrow
    /\ rd[2].out.value = Block(Dense(vd), LoOf(rd[2].qrow),
                               HiOf(rd[2].qrow, vd.M), 0, vd.N)

-----------------------------------------------------------------------------
(* Selector: the selection given for one axis of the bound data object is  *)
(* validated and made canonical when the Selector is constructed.          *)

MaxAxis == 4      \* length of the axis a selection is made on
MaxSelLen == 4    \* length of a list of positions

Axes == {"channel", "taper", "unit", "eventid"}

SelFail(kind) ==
    [kind |-> kind, start |-> 0, stop |-> 0, step |-> 0, lst |-> << >>]
SelSlice(start, stop, step) ==
    [kind |-> "slice", start |-> start, stop |-> stop, step |-> step,
     lst |-> << >>]
SelList(lst) ==
    [kind |-> "list", start |-> 0, stop |-> 0, step |-> 0, lst |-> lst]

\* list(range(a, b))
range(a, b) == [j \in 1..Max(b - a, 0) |-> a + j - 1]

\* The positions form a run: one position, or several with one and the
\* same step of at least 1 between neighbours
IsRun_unitstep(lst) ==
    \A j \in 1..(Len(lst) - 1) : lst[j + 1] - lst[j] = 1
IsRun(lst) ==
    \/ Len(lst) = 1
    \/ /\ lst[2] - lst[1] >= 1
       /\ \A j \in 1..(Len(lst) - 1) : lst[j + 1] - lst[j] = lst[2] - lst[1]

RunStep(lst) == IF Len(lst) = 1 THEN 1 ELSE lst[2] - lst[1]

\* Selector, a non-empty list of positions (or a range, taken as the list
\* of its positions) given for an axis of length n
Selector_positions(lst, n) ==
    IF \E j \in 1..Len(lst) : ~(0 <= lst[j] /\ lst[j] < n)
      THEN SelFail("ValueError")
    ELSE IF IsRun(lst)
      THEN SelSlice(lst[1], lst[Len(lst)] + 1, RunStep(lst))
    ELSE SelList(lst)

\* The selections tried on an axis of length n: every list of up to
\* MaxSelLen positions from one below the axis to its length, and every
\* non-empty range up to one above it
PosLists(n) == UNION {[1..k -> -1..n] : k \in 1..MaxSelLen}
Ranges(n) == {ab \in (0..n) \X (1..(n + 1)) : ab[1] < ab[2]}

SLOp(name, axis, n, t, lst) ==
    [name |-> name, axis |-> axis, n |-> n, t |-> t, lst |-> lst]

\* Selector(data, {axis + "s": selection})
SLSelect ==
    /\ selop.name = "given"
    /\ selop' = [selop EXCEPT !.name = "done"]
    /\ selout' = Selector_positions(selop.lst, selop.n)
    /\ UNCHANGED <<vdVars, ixVars, adVars, bdVars, rdVars, cfVars, cgVars>>

InitSL ==
    /\ VDIdle /\ IxIdle /\ ADIdle /\ BDIdle /\ RDIdle /\ CFIdle /\ CGIdle
    /\ \E axis \in Axes, n \in 1..MaxAxis :
         \/ \E lst \in PosLists(n) : selop = SLOp("given", axis, n, "list", lst)
         \/ \E ab \in Ranges(n) :
              selop = SLOp("given", axis, n, "range", range(ab[1], ab[2]))
    /\ selout = NoOut

NextSL == SLSelect

SpecSL == InitSL /\ [][NextSL]_vars

\* The positions that slice(start, stop, step), step >= 1, selects
SliceItems(start, stop, step) ==
    [j \in 1..(IF start < stop THEN (stop - start + step - 1) \div step ELSE 0)
       |-> start + (j - 1) * step]

AllInAxis(lst, n) == \A j \in 1..Len(lst) : 0 <= lst[j] /\ lst[j] < n

\* The positions, in the order given, are start, start + s, start + 2s, ...
ConstantStep(lst) ==
    \E s \in 1..(MaxAxis + 1) : \A j \in 1..Len(lst) : lst[j] = lst[1] + (j - 1) * s

-----------------------------------------------------------------------------
(* Selector: a slice given for one axis.  The class is pinned by the       *)
(* expected results of TestSelector.selectDict: a valid slice comes back   *)
(* with the start and the stop it was given and a step of 1 when it had    *)
(* none.                                                                   *)

nChannelsTest == 10     \* channel axis of the data objects of TestSelector

\* slice(start, stop, step) with optional start and stop
SelPySlice(start, stop, step) ==
    [kind |-> "slice", start |-> start, stop |-> stop, step |-> step,
     lst |-> << >>]

\* The bound b of a slice on an axis of length n, counted from the front
ResolveBound(b, dflt, n) ==
    IF b = None THEN dflt ELSE IF Val(b) < 0 THEN n + Val(b) ELSE Val(b)

\* The resolved bounds of a slice are legal on an axis of length n
SliceLegal(start, stop, n) ==
    LET a == ResolveBound(start, 0, n)
        b == ResolveBound(stop, n, n)
    IN  0 <= a /\ a < n /\ 0 < b /\ b <= n /\ a < b

\* Selector, a slice given for an axis of length n
Selector_slice_nocheck(start, stop, step, n) ==
    SelPySlice(start, stop, IF step = None THEN 1 ELSE Val(step))
Selector_slice(start, stop, step, n) ==
    IF ~SliceLegal(start, stop, n) THEN SelFail("ValueError")
    ELSE SelPySlice(start, stop, IF step = None THEN 1 ELSE Val(step))

PySliceOf(start, stop, step) == [start |-> start, stop |-> stop, step |-> step]

\* The slices tried on an axis of length n: every start and stop from one
\* below -n to one above n or None, with no step, step 1 or step 2
SliceInputs(n) ==
    {PySliceOf(a, b, s) : a \in OptInt(-(n + 1)..(n + 1)),
                          b \in OptInt(-(n + 1)..(n + 1)),
                          s \in OptInt(1..2)}

\* The slices of selectDict["channel"], valid and invalid
TestSlices ==
    {PySliceOf(None, None, None), PySliceOf(Some(0), Some(5), None),
     PySliceOf(Some(7), None, None), PySliceOf(Some(2), Some(8), None),
     PySliceOf(Some(0), Some(10), Some(2)), PySliceOf(Some(-2), None, None),
     PySliceOf(Some(80), None, None), PySliceOf(Some(-20), None, None),
     PySliceOf(Some(-15), Some(-2), None), PySliceOf(Some(5), Some(1), None)}

SSOp(name, axis, n, sl) ==
    [name |-> name, axis |-> axis, n |-> n, t |-> "slice", sl |-> sl]

\* Selector(data, {axis + "s": slice(start, stop, step)})
SSSelect ==
    /\ selop.name = "given"
    /\ selop' = [selop EXCEPT !.name = "done"]
    /\ selout' = Selector_slice(selop.sl.start, selop.sl.stop, selop.sl.step,
                                selop.n)
    /\ UNCHANGED <<vdVars, ixVars, adVars, bdVars, rdVars, cfVars, cgVars>>

InitSS ==
    /\ VDIdle /\ IxIdle /\ ADIdle /\ BDIdle /\ RDIdle /\ CFIdle /\ CGIdle
    /\ \/ \E axis \in Axes, n \in 1..MaxAxis : \E sl \in SliceInputs(n) :
            selop = SSOp("given", axis, n, sl)
       \/ \E sl \in TestSlices : selop = SSOp("given", "channel", nChannelsTest, sl)
    /\ selout = NoOut

NextSS == SSSelect

SpecSS == InitSS /\ [][NextSS]_vars

StepOf(sl) == IF sl.step = None THEN 1 ELSE Val(sl.step)

\* C21 as stated: a slice given for an axis of length n comes back with
\* explicit bounds (a None start as 0, a None stop as n, a negative bound b
\* as n + b) and step 1 when it had none, so that slice(-2, None) on ten
\* channels gives slice(8, 10, 1); a slice whose resolved bounds violate
\* 0 <= start < n, 0 < stop <= n or start < stop raises a ValueError.
C21_SliceExplicit ==
    selop.name = "done" =>
      /\ SliceLegal(selop.sl.start, selop.sl.stop, selop.n) =>
           selout = SelPySlice(Some(ResolveBound(selop.sl.start, 0, selop.n)),
                               Some(ResolveBound(selop.sl.stop, selop.n, selop.n)),
                               StepOf(selop.sl))
      /\ ~SliceLegal(selop.sl.start, selop.sl.stop, selop.n) =>
           selout = SelFail("ValueError")
      /\ (selop.sl = PySliceOf(Some(-2), None, None) /\ selop.n = nChannelsTest) =>
           selout = SelPySlice(Some(8), Some(10), 1)

\* C21 amended: a slice given for an axis of length n comes back with the
\* start and the stop it was given (None stays None, a negative bound stays
\* negative) and step 1 when it had none, so that slice(-2, None) on ten
\* channels gives slice(-2, None, 1); a slice whose resolved bounds (None
\* start 0, None stop n, negative b as n + b) violate 0 <= start < n,
\* 0 < stop <= n or start < stop raises a ValueError: slice(80, None),
\* slice(-20, None), slice(-15, -2) and slice(5, 1) for n = 10.
C21_SliceAsGiven ==
    selop.name = "done" =>
      /\ SliceLegal(selop.sl.start, selop.sl.stop, selop.n) =>
           selout = SelPySlice(selop.sl.start, selop.sl.stop, StepOf(selop.sl))
      /\ ~SliceLegal(selop.sl.start, selop.sl.stop, selop.n) =>
           selout = SelFail("ValueError")
      /\ (selop.sl = PySliceOf(Some(-2), None, None) /\ selop.n = nChannelsTest) =>
           selout = SelPySlice(Some(-2), None, 1)
      /\ (selop.n = nChannelsTest
          /\ selop.sl \in {PySliceOf(Some(80), None, None),
                           PySliceOf(Some(-20), None, None),
                           PySliceOf(Some(-15), Some(-2), None),
                           PySliceOf(Some(5), Some(1), None)}) =>
           selout = SelFail("ValueError")

\* slice(-2, None) on the ten channels has been selected
C21_Witness ==
    /\ selop.name = "done" /\ selop.axis = "channel" /\ selop.n = nChannelsTest
    /\ selop.sl = PySliceOf(Some(-2), None, None)
    /\ selout = SelPySlice(Some(-2), None, 1)

-----------------------------------------------------------------------------
(* Selector: the selection of trials                                       *)

nTrlTest == 6      \* trials of the trial definition of TestSelector

\* A trial selection made canonical as the selections on the other axes are
Selector_trials_canonical(lst, numTrials) == Selector_positions(lst, numTrials)

\* Selector, a list of trial numbers given for an object with numTrials
\* trials: the list as given, never a slice
Selector_trials(lst, numTrials) ==
    IF \E j \in 1..Len(lst) : ~(0 <= lst[j] /\ lst[j] < numTrials)
      THEN SelFail("ValueError")
      ELSE SelList(lst)

\* Selector(data, {"trials": lst}): the Selector reads the trial definition
\* of the object and assigns nothing to the object
STSelect ==
    /\ selop.name = "given"
    /\ selop' = [selop EXCEPT !.name = "done"]
    /\ selout' = Selector_trials(selop.lst, selop.n)
    /\ UNCHANGED <<vdVars, ixVars, adVars, bdVars, rdVars, cfVars, cgVars>>

\* The trial selections tried: every list of up to MaxSelLen numbers from
\* -1 to numTrials for up to MaxAxis trials, and the two lists of
\* TestSelector.test_general for its six trials
InitST ==
    /\ VDIdle /\ IxIdle /\ ADIdle /\ BDIdle /\ RDIdle /\ CFIdle /\ CGIdle
    /\ \/ \E n \in 1..MaxAxis : \E lst \in PosLists(n) :
            selop = SLOp("given", "trials", n, "list", lst)
       \/ \E lst \in {<<3, 1>>, <<-1, 9>>} :
            selop = SLOp("given", "trials", nTrlTest, "list", lst)
    /\ selout = NoOut

NextST == STSelect

SpecST == InitST /\ [][NextST]_vars

\* C22: the trial selection of a Selector is the plain list of the trial
\* numbers in the order given, never a slice, also for contiguous numbers
\* ([3, 1] gives [3, 1]); a trial number outside [0, numTrials) ([-1, 9]
\* with 6 trials) makes the construction fail with a ValueError; the bound
\* data object is unchanged either way.
C22_TrialsPlainList ==
    [][(selop.name = "given" /\ selop'.name = "done") =>
         /\ AllInAxis(selop.lst, selop.n) =>
              /\ selout'.kind = "list"
              /\ selout'.lst = selop.lst
         /\ ~AllInAxis(selop.lst, selop.n) => selout' = SelFail("ValueError")
         /\ (selop.lst = <<3, 1>> /\ selop.n = nTrlTest) =>
              selout' = SelList(<<3, 1>>)
         /\ (selop.lst = <<-1, 9>> /\ selop.n = nTrlTest) =>
              selout' = SelFail("ValueError")
         /\ selop'.n = selop.n
         /\ UNCHANGED <<vdVars, ixVars, adVars, bdVars, rdVars, cfVars, cgVars>>]_vars

\* The contiguous trials [0, 1, 2] of four have been selected and are
\* still a list
C22_Witness ==
    /\ selop.name = "done" /\ selop.axis = "trials" /\ selop.n = 4
    /\ selop.lst = <<0, 1, 2>>
    /\ selout = SelList(<<0, 1, 2>>)

-----------------------------------------------------------------------------
(* The layout of the chunks of a VirtualData *)

\* All chunks of the object have the shape of the first
SameShape(self) ==
    \A k \in 1..Len(self.data) :
        /\ Len(self.data[k]) = Len(self.data[1])
        /\ Len(self.data[k][1]) = Len(self.data[1][1])

ChunkRows(self) == Len(self.data[1])
ChunkCols(self) == Len(self.data[1][1])

\* C23: a VirtualData of k chunks of shape (m, n) each has M = m and
\* N = k * n, the chunks lying side by side along the column axis: all rows
\* of the columns [j*n, (j+1)*n) are chunk j, and row 0 over all columns is
\* the rows 0 of the chunks joined in chunk order.
C23_ChunksSideBySide ==
    (vd # NoVD /\ SameShape(vd)) =>
      /\ vd.M = ChunkRows(vd)
      /\ vd.N = Len(vd.data) * ChunkCols(vd)
      /\ \A j \in 0..(Len(vd.data) - 1) :
           (IsRead /\ vdop.qrow = SliceIdx(None, None)
              /\ vdop.qcol = SliceIdx(Some(j * ChunkCols(vd)),
                                      Some((j + 1) * ChunkCols(vd)))) =>
             (vdout.kind = "ok" /\ vdout.value = vd.data[j + 1])
      /\ (IsRead /\ vdop.qrow = IntIdx(0) /\ vdop.qcol = SliceIdx(None, None)) =>
             (vdout.kind = "ok" /\ vdout.value = <<JoinRows(vd.data, 1)>>)

-----------------------------------------------------------------------------
(* Compute functions: superlet, mtmconvol and normalize_csd_cF.  An array  *)
(* is present by its shape only, a sequence of axis lengths; of the work   *)
(* of a call the number of transforms it runs (cwtSL, scipy.signal.stft,   *)
(* the normalisation) is kept.                                             *)

MaxDim == 2       \* length of an axis of the input of a compute function

\* arr.transpose(perm), arr.T, arr[:, newaxis, ...], arr[None, ...], arr[0, ...]
transpose(shape, perm) == [i \in 1..Len(perm) |-> shape[perm[i] + 1]]
Reversed(shape) == [i \in 1..Len(shape) |-> shape[Len(shape) + 1 - i]]
newaxis(shape, pos) ==
    SubSeq(shape, 1, pos) \o <<1>> \o SubSeq(shape, pos + 1, Len(shape))
DropFirst(shape) == Tail(shape)

\* arr.diagonal() of an array of three axes: the diagonal of the first two
\* axes becomes the last axis
diagonal(shape) == <<shape[3], Min(shape[1], shape[2])>>

\* The shape of a * b and a / b for two shapes of equal length: NumPy
\* broadcasting, << >> when the shapes do not fit
Broadcast(a, b) ==
    IF \A i \in 1..Len(a) : a[i] = b[i] \/ a[i] = 1 \/ b[i] = 1
      THEN [i \in 1..Len(a) |-> Max(a[i], b[i])]
      ELSE << >>

\* spectralDTypes[output_fmt]
spectralDTypes(fmt) == IF fmt = "fourier" THEN "complex64" ELSE "float32"

CFDry(shape, dtype) ==
    [kind |-> "dry", shape |-> shape, dtype |-> dtype, transforms |-> 0]
CFArray(shape, transforms) ==
    [kind |-> "array", shape |-> shape, dtype |-> "", transforms |-> transforms]
CFRaise(kind, transforms) ==
    [kind |-> kind, shape |-> << >>, dtype |-> "", transforms |-> transforms]

\* cwtSL(data, wavelet, scales, dt): numpy.zeros((len(scales),) + data.shape)
cwtSL(data, nScales) == <<nScales>> \o data

\* multiplicativeSLT and adaptiveSLT: the shape of cwtSL, and one cwtSL per
\* order of the set (adaptive: per order that occurs)
SLT(c) ==
    [shape |-> cwtSL(c.trl, c.nScales),
     transforms |-> IF c.adaptive THEN Min(c.order_max, c.nScales)
                    ELSE c.order_max]

\* superlet(trl_dat, samplerate, scales, order_max, ..., noCompute)
superlet_notranspose(c, noCompute) ==
    LET outShape == <<c.trl[1], 1, c.nScales, c.trl[2]>>
    IN  IF noCompute THEN CFDry(outShape, spectralDTypes(c.output_fmt))
        ELSE CFArray(newaxis(SLT(c).shape, 1), SLT(c).transforms)
superlet(c, noCompute) ==
    LET nChannels == c.trl[2]
        nTime == c.trl[1]
        outShape == <<nTime, 1, c.nScales, nChannels>>
    IN  IF noCompute THEN CFDry(outShape, spectralDTypes(c.output_fmt))
        ELSE CFArray(newaxis(transpose(SLT(c).shape, <<1, 0, 2>>), 1),
                     SLT(c).transforms)

\* numpy.ceil(a / b) for positive integers
CeilDiv(a, b) == (a + b - 1) \div b

\* mtmconvol(trl_dat, soi, padbegin, padend, ..., noCompute) with
\* equidistant windows; toi is an array of nToi time points (nToi > 0) or
\* "all" / a percentage (nToi = 0)
mtmconvol(c, noCompute) ==
    LET dat0 == IF c.timeAxis # 0 THEN Reversed(c.trl) ELSE c.trl
        dat  == IF c.padbegin > 0 \/ c.padend > 0
                  THEN <<dat0[1] + c.padbegin + c.padend, dat0[2]>>
                  ELSE dat0
        nChannels == dat[2]
        nTime == IF c.nToi > 0 THEN c.nToi
                 ELSE CeilDiv(dat[1], c.nperseg - c.noverlap)
        nFreq == c.nFreq
        keep == IF c.keeptapers THEN 1 ELSE 0
        outShape == <<nTime, Max(1, c.nTaper * keep), nFreq, nChannels>>
        spec == <<nTime, c.nTaper, nFreq, nChannels>>
    IN  IF noCompute THEN CFDry(outShape, spectralDTypes(c.output_fmt))
        ELSE IF ~c.keeptapers
          THEN CFArray([spec EXCEPT ![2] = 1], c.nTaper)
        ELSE CFArray(spec, c.nTaper)

\* normalize_csd_cF(trl_dat, output, chunkShape, noCompute)
normalize_csd_cF(c, noCompute) ==
    LET outShape == c.trl
        CS_ij == DropFirst(transpose(c.trl, <<0, 2, 3, 1>>))
        diag  == diagonal(CS_ij)
        Ciijj == Reversed(Broadcast(<<diag[1], diag[2], 1>>,
                                    <<diag[1], 1, diag[2]>>))
        quot  == Broadcast(CS_ij, Ciijj)
    IN  IF noCompute THEN CFDry(outShape, spectralDTypes(c.output_fmt))
        ELSE IF quot = << >> THEN CFRaise("ValueError", 0)
        ELSE CFArray(transpose(newaxis(quot, 0), <<0, 3, 1, 2>>), 1)

computeFunction(c, noCompute) ==
    IF c.fn = "superlet" THEN superlet(c, noCompute)
    ELSE IF c.fn = "mtmconvol" THEN mtmconvol(c, noCompute)
    ELSE normalize_csd_cF(c, noCompute)

Dims == 1..MaxDim
Formats == {"pow", "fourier"}

\* The calls tried
SuperletCalls ==
    {[fn |-> "superlet", trl |-> <<t, ch>>, nScales |-> ns, order_max |-> om,
      adaptive |-> ad_, output_fmt |-> fmt] :
        t \in Dims, ch \in Dims, ns \in Dims, om \in 1..2,
        ad_ \in BOOLEAN, fmt \in Formats}
MtmconvolCalls ==
    {[fn |-> "mtmconvol", trl |-> <<r, cl>>, timeAxis |-> ta,
      padbegin |-> pb, padend |-> pe, nToi |-> nt, nperseg |-> w[1],
      noverlap |-> w[2], nFreq |-> nf, nTaper |-> ntp, keeptapers |-> kt,
      output_fmt |-> fmt] :
        r \in Dims, cl \in Dims, ta \in 0..1, pb \in 0..1, pe \in 0..1,
        nt \in 0..MaxDim,
        w \in {<<1, 0>>, <<2, 0>>, <<2, 1>>}, nf \in Dims, ntp \in Dims,
        kt \in BOOLEAN, fmt \in {"pow"}}
NormalizeCalls ==
    {[fn |-> "normalize_csd_cF", trl |-> <<t, f, n1, n2>>, output_fmt |-> fmt] :
        t \in 1..2, f \in Dims, n1 \in Dims, n2 \in Dims, fmt \in Formats}

\* The dry run of the call: computeFunction(..., noCompute=True)
CFDryRun ==
    /\ cfcall # NoOp /\ cfdry = NoOut
    /\ cfdry' = computeFunction(cfcall, TRUE)
    /\ UNCHANGED <<cfcall, cfout>>
    /\ UNCHANGED <<vdVars, ixVars, adVars, bdVars, rdVars, slVars, cgVars>>

\* The same call with noCompute=False
CFCompute ==
    /\ cfcall # NoOp /\ cfout = NoOut
    /\ cfout' = computeFunction(cfcall, FALSE)
    /\ UNCHANGED <<cfcall, cfdry>>
    /\ UNCHANGED <<vdVars, ixVars, adVars, bdVars, rdVars, slVars, cgVars>>

InitCF ==
    /\ VDIdle /\ IxIdle /\ ADIdle /\ BDIdle /\ RDIdle /\ SLIdle /\ CGIdle
    /\ cfcall \in SuperletCalls \cup MtmconvolCalls \cup NormalizeCalls
    /\ cfdry = NoOut
    /\ cfout = NoOut

NextCF == CFDryRun \/ CFCompute

SpecCF == InitCF /\ [][NextCF]_vars

\* The inputs the docstrings admit: normalize_csd_cF takes the cross
\* spectra of one (averaged) trial, N x N channels
Admissible(c) ==
    c.fn = "normalize_csd_cF" => (c.trl[1] = 1 /\ c.trl[3] = c.trl[4])

\* nTime of mtmconvol: the time points of toi, or the windows that fit
mtmTime(c) ==
    IF c.nToi > 0 THEN c.nToi
    ELSE CeilDiv((IF c.timeAxis = 0 THEN c.trl[1] ELSE c.trl[2])
                    + c.padbegin + c.padend,
                 c.nperseg - c.noverlap)

-----------------------------------------------------------------------------
(* The row ranges of the chunks *)

\* The row and the column index of the read pass the checks of __getitem__
PassesChecks ==
    /\ IsRead
    /\ ToSlice(vdop.qrow, vd.M).err = "ok" /\ ToSlice(vdop.qcol, vd.N).err = "ok"
    /\ ~OutOfLimits(ToSlice(vdop.qrow, vd.M), vd.M)
    /\ ~OutOfLimits(ToSlice(vdop.qcol, vd.N), vd.N)

-----------------------------------------------------------------------------
(* BaseData.cfg: the chain of the dictionaries assigned to the property.   *)
(* A dictionary is [id, keys]: the number of its assignment and the number *)
(* of keys it holds besides "cfg".  The variable cfg is the chain that     *)
(* starts at self._cfg and goes on through the "cfg" keys, outermost       *)
(* dictionary first; the empty chain is the {} that __init__ sets.         *)

MaxAssign == 4    \* assignments to the cfg of one object
MaxKeys == 2      \* keys of an assigned dictionary

Dict(id, keys) == [id |-> id, keys |-> keys]

\* "not cfg" for the dictionary a chain starts with: it holds no key at
\* all, neither a key of its own nor "cfg"
Falsy(chain) == chain = << >> \/ (Len(chain) = 1 /\ chain[1].keys = 0)

\* What the body of _set_cfg(cfg, dct) changes in place for a cfg that is
\* not empty: with a "cfg" key it calls itself on cfg["cfg"] and drops what
\* that call returns; without one it sets cfg["cfg"] = dct
RECURSIVE set_cfg_inplace(_, _)
set_cfg_inplace(chain, dct) ==
    IF Falsy(chain) THEN chain
    ELSE IF Len(chain) > 1
      THEN <<chain[1]>> \o set_cfg_inplace(Tail(chain), dct)
    ELSE chain \o <<dct>>

\* self._set_cfg(self._cfg, dct): the chain of the dictionary returned
set_cfg(chain, dct) ==
    IF Falsy(chain) THEN <<dct>> ELSE set_cfg_inplace(chain, dct)

CGOp(name, given, kind) == [name |-> name, given |-> given, kind |-> kind]

\* obj.cfg = dct for a dictionary dct
CfgAssign ==
    /\ cfgop # NoOp
    /\ Len(cfgop.given) < MaxAssign
    /\ \E keys \in 0..MaxKeys :
         LET dct == Dict(Len(cfgop.given) + 1, keys)
         IN  /\ cfg' = set_cfg(cfg, dct)
             /\ cfgop' = CGOp("assign", Append(cfgop.given, dct), "ok")
    /\ UNCHANGED <<vdVars, ixVars, adVars, bdVars, rdVars, slVars, cfVars>>

\* obj.cfg = value for a value that is no dictionary
CfgAssignOther ==
    /\ cfgop # NoOp
    /\ cfgop' = CGOp("assign", cfgop.given, "TypeError")
    /\ UNCHANGED cfg
    /\ UNCHANGED <<vdVars, ixVars, adVars, bdVars, rdVars, slVars, cfVars>>

InitCG ==
    /\ VDIdle /\ IxIdle /\ ADIdle /\ BDIdle /\ RDIdle /\ SLIdle /\ CFIdle
    /\ cfg = << >>
    /\ cfgop = CGOp("init", << >>, "ok")

NextCG == CfgAssign \/ CfgAssignOther

SpecCG == InitCG /\ [][NextCG]_vars

\* C26: after the dictionaries d1, ..., dn (possibly empty, none with a
\* "cfg" key of its own) were assigned to cfg in this order, cfg is the
\* chain through the "cfg" keys of all of them, each once, d1 outermost and
\* dn innermost; an assignment of a value that is no dictionary raises a
\* TypeError and leaves cfg as it is.
C26_CfgChain ==
    cfgop # NoOp => cfg = cfgop.given

-----------------------------------------------------------------------------
(* Copies and discards: a source, its deep copy and a shallow copy of the  *)
(* deep copy need one wrapper more than the other runs create.  Only the   *)
(* file of the user outside every storage-like path exists at the start.   *)

CopyIds == 1..(MaxObjs + 1)

InitLC ==
    /\ VDIdle /\ IxIdle /\ ADIdle /\ RDIdle /\ SLIdle /\ CFIdle /\ CGIdle
    /\ objs = [o \in CopyIds |-> NoObj]
    /\ bufs = [b \in CopyIds |-> NoBuf]
    /\ fs = [p \in AllPaths \cup {Path("storage", i) : i \in CopyIds} |->
               IF p \in {Path("user", 1), RawPath} THEN Some(1) ELSE None]
    /\ bdop = BDNoOp
    /\ bdout = BDNoOut

NextLC == BDNew \/ BDLoad \/ BDCopy \/ BDDel

SpecLC == InitLC /\ [][NextLC]_vars

\* C27: no backing file is deleted while a live object still names it: no
\* construction, copy(deep=False), copy(deep=True) or discard removes a
\* file that is the filename of an object alive after the step.
C27_NoLiveFileDeleted ==
    [][\A p \in DOMAIN fs :
         (exists(fs, p) /\ ~exists(fs', p)) =>
            ~\E o \in DOMAIN objs :
                objs'[o].st = "live" /\ objs'[o].filename.p = p]_vars

\* What the data of object o shows
DataShown(o) == bufs[Val(objs[o].data)].mem

\* C28: after copy(deep=True) of an object whose data is one memory map
\* the data of the copy is a buffer of its own on the new file of the copy,
\* not the buffer of the source; so a later write through the data of one
\* of two objects with different files does not show in the data of the
\* other.
C28_DeepCopyOwnBuffer ==
    [][/\ (bdop'.name = "copy" /\ bdop'.deep /\ bdout'.kind = "ok"
             /\ bdout'.ret # None) =>
            /\ objs'[Val(bdout'.ret)].data # objs'[bdop'.obj].data
            /\ bufs'[Val(objs'[Val(bdout'.ret)].data)].file
                 = objs'[Val(bdout'.ret)].filename.p
       /\ \A o \in Live, q \in Live :
            (bdop'.name = "write" /\ bdop'.obj = o /\ IsMemmap(q)
               /\ objs[q].filename # objs[o].filename) =>
              bufs'[Val(objs[q].data)].mem = DataShown(q)]_vars

\* C29: save_data never returns normally without having handed the object
\* to a writing routine: for filetype None or a supported format it calls
\* save_spy, for a filetype that is no string it raises a TypeError before
\* anything is written, and for every other string it raises an error
\* instead of returning silently.
C29_SaveNeverSilent ==
    bdop.name = "save" =>
      /\ (bdop.ft.t = "None"
            \/ (bdop.ft.t = "str" /\ bdop.ft.s \in supportedFormats)) =>
           (bdout.kind = "ok" /\ bdout.handed)
      /\ bdop.ft.t \notin {"None", "str"} =>
           (bdout.kind = "SPYTypeError" /\ ~bdout.handed)
      /\ (bdop.ft.t = "str" /\ bdop.ft.s \notin supportedFormats) =>
           (bdout.kind # "ok" /\ ~bdout.handed)
      /\ bdout.kind = "ok" => bdout.handed

-----------------------------------------------------------------------------
(* Reads of a VirtualData with stepped slices *)

\* slice(a, b, s)
SteppedIdx(a, b, s) ==
    [t |-> "slice", v |-> 0, start |-> a, stop |-> b, step |-> s]

\* The steps tried: none, 1, and steps that a plain slice does not have
Steps == {None, Some(1), Some(2), Some(0), Some(-1)}

\* The slices tried on an axis of length n
SteppedSlices(n) ==
    {SteppedIdx(a, b, s) : a \in OptInt(-1..(n + 1)), b \in OptInt(-1..(n + 1)),
                           s \in Steps}
PlainSlices(n) ==
    {SteppedIdx(None, None, None), SteppedIdx(Some(0), Some(1), None),
     SteppedIdx(Some(n - 1), None, None)}

\* vd[a:b:s, c] or vd[r, a:b:s], no result of an earlier call pending
SPRead ==
    /\ vdop.name = "idle"
    /\ \/ \E qrow \in SteppedSlices(vd.M), qcol \in PlainSlices(vd.N) :
            /\ vdop' = [name |-> "getitem", qrow |-> qrow, qcol |-> qcol]
            /\ vdout' = VD_getitem(vd, qrow, qcol)
       \/ \E qrow \in PlainSlices(vd.M), qcol \in SteppedSlices(vd.N) :
            /\ vdop' = [name |-> "getitem", qrow |-> qrow, qcol |-> qcol]
            /\ vdout' = VD_getitem(vd, qrow, qcol)
    /\ UNCHANGED vd
    /\ UNCHANGED <<ixVars, adVars, bdVars, rdVars, slVars, cfVars, cgVars>>

\* The caller takes the result
SPReturn ==
    /\ vdop.name = "getitem"
    /\ vdop' = [name |-> "idle"]
    /\ vdout' = [kind |-> "ok", value |-> NoArray, reads |-> {}]
    /\ UNCHANGED vd
    /\ UNCHANGED <<ixVars, adVars, bdVars, rdVars, slVars, cfVars, cgVars>>

InitSP ==
    /\ IxIdle /\ ADIdle /\ BDIdle /\ RDIdle /\ SLIdle /\ CFIdle /\ CGIdle
    /\ \E cl \in ChunkLists :
         /\ VD_init(cl).kind = "ok"
         /\ vd = VD_init(cl).obj
    /\ vdop = [name |-> "idle"]
    /\ vdout = [kind |-> "ok", value |-> NoArray, reads |-> {}]

NextSP == SPRead \/ SPReturn

SpecSP == InitSP /\ [][NextSP]_vars

HasStep(q) == q.step \notin {None, Some(1)}

\* C30: __getitem__ ignores the step of a slice: for every valid row or
\* column slice with a step other than None or 1, vd[a:b:s, c] returns the
\* rows (and vd[r, a:b:s] the columns) that the slice without the step
\* selects, without raising an error.
C30_StepIgnored ==
    (ReadValid /\ (HasStep(vdop.qrow) \/ HasStep(vdop.qcol))) =>
        /\ vdout.kind = "ok"
        /\ vdout.value = Block(Dense(vd), R0, R1, C0, C1)
        /\ vdout = VD_getitem(vd, SliceIdx(vdop.qrow.start, vdop.qrow.stop),
                              SliceIdx(vdop.qcol.start, vdop.qcol.stop))

\* The four rows of two chunks read with step 2: all four come back
C30_Witness ==
    /\ IsRead /\ vd.nrows = <<2, 2>>
    /\ vdop.qrow = SteppedIdx(Some(0), Some(4), Some(2))
    /\ vdop.qcol = SteppedIdx(None, None, None)
    /\ vdout.kind = "ok"
    /\ Len(vdout.value) = 4
    /\ vdout.value = Dense(vd)

====
